---------------------------- MODULE Spec2Model ----------------------------
(***************************************************************************)
(* Data Dive: the spreadsheet import dialog (ExcelUploader), its type      *)
(* inference and value normalisation, and the live field/row store of the  *)
(* application root (App, FieldBuilder).                                   *)
(*                                                                         *)
(* JavaScript strings are sequences of one-character strings.  JavaScript  *)
(* values are records [k, s, m, e, b]: k is the kind, s the characters of  *)
(* a string, b a boolean, and (m, e) the finite number m * 10^(-e).        *)
(***************************************************************************)
EXTENDS Integers, Sequences, FiniteSets, TLC

(***************************************************************************)
(* Bounds of the model.                                                    *)
(***************************************************************************)
MaxLen == 3

MaxRows == 2

MaxInFlight == 2

MaxTime == 1

(***************************************************************************)
(* Characters and strings.                                                 *)
(***************************************************************************)
Digits == <<"0", "1", "2", "3", "4", "5", "6", "7", "8", "9">>

UpperCase == <<"A", "B", "C", "D", "E", "F", "G", "H", "I", "J", "K", "L", "M",
               "N", "O", "P", "Q", "R", "S", "T", "U", "V", "W", "X", "Y", "Z">>

LowerCase == <<"a", "b", "c", "d", "e", "f", "g", "h", "i", "j", "k", "l", "m",
               "n", "o", "p", "q", "r", "s", "t", "u", "v", "w", "x", "y", "z">>

IsDigit(c) == \E i \in DOMAIN Digits : Digits[i] = c

DigitVal(c) == (CHOOSE i \in DOMAIN Digits : Digits[i] = c) - 1

toLowerChar(c) ==
    IF \E i \in DOMAIN UpperCase : UpperCase[i] = c
    THEN LowerCase[CHOOSE i \in DOMAIN UpperCase : UpperCase[i] = c]
    ELSE c

toLowerCase(s) == [i \in DOMAIN s |-> toLowerChar(s[i])]

includes(s, c) == \E i \in DOMAIN s : s[i] = c

\* The character at position i, or "" past the end of the string.
CharAt(s, i) == IF i \in DOMAIN s THEN s[i] ELSE ""

RECURSIVE TrimStart(_)
TrimStart(s) ==
    IF s # <<>> /\ Head(s) = " " THEN TrimStart(Tail(s)) ELSE s

RECURSIVE TrimEnd(_)
TrimEnd(s) ==
    IF s # <<>> /\ s[Len(s)] = " "
    THEN TrimEnd(SubSeq(s, 1, Len(s) - 1))
    ELSE s

trim(s) == TrimEnd(TrimStart(s))

\* The number of consecutive decimal digits of s from position i on.
RECURSIVE DigitRun(_, _)
DigitRun(s, i) ==
    IF i \in DOMAIN s /\ IsDigit(s[i]) THEN 1 + DigitRun(s, i + 1) ELSE 0

\* The value of the n decimal digits of s from position i on.
RECURSIVE DigitsVal(_, _, _)
DigitsVal(s, i, n) ==
    IF n = 0 THEN 0
    ELSE 10 * DigitsVal(s, i, n - 1) + DigitVal(s[i + n - 1])

RECURSIVE Pow10(_)
Pow10(n) == IF n <= 0 THEN 1 ELSE 10 * Pow10(n - 1)

RECURSIVE NumDigits(_)
NumDigits(n) == IF n < 10 THEN 1 ELSE 1 + NumDigits(n \div 10)

Abs(n) == IF n < 0 THEN -n ELSE n

\* The decimal digits of the natural number n, as characters.
RECURSIVE NatToChars(_)
NatToChars(n) ==
    IF n < 10 THEN <<Digits[n + 1]>>
    ELSE Append(NatToChars(n \div 10), Digits[(n % 10) + 1])

RECURSIVE Zeros(_)
Zeros(n) == IF n <= 0 THEN <<>> ELSE <<"0">> \o Zeros(n - 1)

(***************************************************************************)
(* JavaScript values.                                                      *)
(***************************************************************************)
Null == [k |-> "null", s |-> <<>>, m |-> 0, e |-> 0, b |-> FALSE]

Undefined == [k |-> "undefined", s |-> <<>>, m |-> 0, e |-> 0, b |-> FALSE]

Str(s) == [k |-> "string", s |-> s, m |-> 0, e |-> 0, b |-> FALSE]

Bool(b) == [k |-> "boolean", s |-> <<>>, m |-> 0, e |-> 0, b |-> b]

NaN == [k |-> "nan", s |-> <<>>, m |-> 0, e |-> 0, b |-> FALSE]

\* +Infinity (sign 1) and -Infinity (sign -1).
Inf(sign) == [k |-> "inf", s |-> <<>>, m |-> sign, e |-> 0, b |-> FALSE]

\* The finite number m * 10^(-e), in normal form: m has no trailing zero.
RECURSIVE Num(_, _)
Num(m, e) ==
    IF m = 0 THEN [k |-> "num", s |-> <<>>, m |-> 0, e |-> 0, b |-> FALSE]
    ELSE IF m % 10 = 0 THEN Num(m \div 10, e - 1)
    ELSE [k |-> "num", s |-> <<>>, m |-> m, e |-> e, b |-> FALSE]

typeof(v) ==
    CASE v.k \in {"num", "nan", "inf"} -> "number"
      [] v.k = "string" -> "string"
      [] v.k = "boolean" -> "boolean"
      [] v.k = "undefined" -> "undefined"
      [] OTHER -> "object"

isNaN(v) == v.k = "nan"

\* What an expression leaves when it throws instead of giving a value.
Thrown(name) == [k |-> "throw", s |-> name, m |-> 0, e |-> 0, b |-> FALSE]

\* value === null || value === undefined || value === ''
IsEmptyCell(v) == v.k \in {"null", "undefined"} \/ v = Str(<<>>)

(***************************************************************************)
(* Number(value), parseFloat(value) and value.toString(), as ECMAScript    *)
(* defines them for the values a sheet cell can hold.                      *)
(***************************************************************************)
InfinityChars == <<"I", "n", "f", "i", "n", "i", "t", "y">>

StartsWith(s, p) == Len(s) >= Len(p) /\ SubSeq(s, 1, Len(p)) = p

\* A finite decimal, or Infinity / 0 beyond the range of a double.
Decimal(m, e) ==
    LET nd == NumDigits(Abs(m))
    IN  IF m = 0 THEN Num(0, 0)
        ELSE IF nd - e > 309 THEN Inf(IF m < 0 THEN -1 ELSE 1)
        ELSE IF nd - e < -323 THEN Num(0, 0)
        ELSE Num(m, e)

\* The longest prefix of s that is a StrDecimalLiteral other than Infinity:
\* [+-] digits [. digits] [(e|E) [+-] digits].  i0 is where the digits
\* start, nInt and nFrac count the digits before and after the dot, mantEnd
\* is the position after the mantissa, j where the digits of the exponent
\* would start and nExp their number.
ScanDecimal(s) ==
    LET i0 == IF CharAt(s, 1) \in {"+", "-"} THEN 2 ELSE 1
        nInt == DigitRun(s, i0)
        dot == IF CharAt(s, i0 + nInt) = "." THEN 1 ELSE 0
        nFrac == IF dot = 1 THEN DigitRun(s, i0 + nInt + 1) ELSE 0
        mantEnd == i0 + nInt + dot + nFrac
        j == IF CharAt(s, mantEnd + 1) \in {"+", "-"}
             THEN mantEnd + 2 ELSE mantEnd + 1
        nExp == IF CharAt(s, mantEnd) \in {"e", "E"} THEN DigitRun(s, j) ELSE 0
    IN  [ok  |-> nInt + nFrac >= 1,
         end |-> IF nExp >= 1 THEN j + nExp ELSE mantEnd,
         val |-> Decimal((IF CharAt(s, 1) = "-" THEN -1 ELSE 1)
                            * (DigitsVal(s, i0, nInt) * Pow10(nFrac)
                                + DigitsVal(s, i0 + nInt + 1, nFrac)),
                         nFrac - (IF nExp = 0 THEN 0
                                  ELSE IF CharAt(s, mantEnd + 1) = "-"
                                  THEN -DigitsVal(s, j, nExp)
                                  ELSE DigitsVal(s, j, nExp)))]

RadixOf(c) ==
    CASE c \in {"x", "X"} -> 16
      [] c \in {"o", "O"} -> 8
      [] c \in {"b", "B"} -> 2
      [] OTHER -> 0

RadixDigit(c) ==
    IF IsDigit(c) THEN DigitVal(c)
    ELSE IF toLowerChar(c) \in {"a", "b", "c", "d", "e", "f"}
    THEN 9 + (CHOOSE i \in 1..6 : LowerCase[i] = toLowerChar(c))
    ELSE 99

RECURSIVE RadixVal(_, _, _)
RadixVal(s, n, radix) ==
    IF n <= 2 THEN 0
    ELSE radix * RadixVal(s, n - 1, radix) + RadixDigit(s[n])

\* 0x.., 0o.., 0b.. : a NonDecimalIntegerLiteral, which takes no sign.
IsRadixLiteral(s) ==
    /\ Len(s) >= 3
    /\ s[1] = "0"
    /\ RadixOf(s[2]) # 0
    /\ \A i \in 3..Len(s) : RadixDigit(s[i]) < RadixOf(s[2])

\* StringToNumber: the whole trimmed string must be a numeric literal.
StringToNumber(s) ==
    LET t == trim(s)
        sc == ScanDecimal(t)
    IN  IF t = <<>> THEN Num(0, 0)
        ELSE IF t = InfinityChars \/ t = <<"+">> \o InfinityChars THEN Inf(1)
        ELSE IF t = <<"-">> \o InfinityChars THEN Inf(-1)
        ELSE IF IsRadixLiteral(t)
        THEN Num(RadixVal(t, Len(t), RadixOf(t[2])), 0)
        ELSE IF sc.ok /\ sc.end = Len(t) + 1 THEN sc.val
        ELSE NaN

\* Number::toString of m * 10^(-e): D are the digits of m, the point comes
\* after n of them.
NumberToString(m, e) ==
    LET sign == IF m < 0 THEN <<"-">> ELSE <<>>
        D == NatToChars(Abs(m))
        k == Len(D)
        n == k - e
    IN  IF m = 0 THEN <<"0">>
        ELSE IF k <= n /\ n <= 21 THEN sign \o D \o Zeros(n - k)
        ELSE IF 0 < n /\ n <= 21
        THEN sign \o SubSeq(D, 1, n) \o <<".">> \o SubSeq(D, n + 1, k)
        ELSE IF -6 < n /\ n <= 0 THEN sign \o <<"0", ".">> \o Zeros(-n) \o D
        ELSE sign \o <<D[1]>>
                \o (IF k = 1 THEN <<>> ELSE <<".">> \o SubSeq(D, 2, k))
                \o <<"e", IF n - 1 < 0 THEN "-" ELSE "+">>
                \o NatToChars(Abs(n - 1))

\* value.toString() / String(value)
toString(v) ==
    CASE v.k = "string" -> v.s
      [] v.k = "boolean" ->
            IF v.b THEN <<"t", "r", "u", "e">> ELSE <<"f", "a", "l", "s", "e">>
      [] v.k = "num" -> NumberToString(v.m, v.e)
      [] v.k = "nan" -> <<"N", "a", "N">>
      [] v.k = "inf" -> (IF v.m < 0 THEN <<"-">> ELSE <<>>) \o InfinityChars
      [] v.k = "null" -> <<"n", "u", "l", "l">>
      [] OTHER -> <<"u", "n", "d", "e", "f", "i", "n", "e", "d">>

\* Number(value)
Number(v) ==
    CASE v.k = "string" -> StringToNumber(v.s)
      [] v.k = "boolean" -> IF v.b THEN Num(1, 0) ELSE Num(0, 0)
      [] v.k = "null" -> Num(0, 0)
      [] v.k = "undefined" -> NaN
      [] OTHER -> v

\* parseFloat(value): the longest numeric prefix of the string of the value,
\* after its leading white space.
parseFloat(v) ==
    LET t == TrimStart(toString(v))
        sc == ScanDecimal(t)
    IN  IF StartsWith(t, InfinityChars)
            \/ StartsWith(t, <<"+">> \o InfinityChars)
        THEN Inf(1)
        ELSE IF StartsWith(t, <<"-">> \o InfinityChars) THEN Inf(-1)
        ELSE IF sc.ok THEN sc.val
        ELSE NaN

(***************************************************************************)
(* new Date(value).  A date is [valid, day]: day is the UTC day of its     *)
(* time value, counted from 1970-01-01.  The environment env is            *)
(* [tzEast, lenient]: tzEast says that local time is ahead of UTC, so that *)
(* local midnight falls on the previous UTC day; lenient says that the     *)
(* engine's fallback parser accepts the forms ECMAScript leaves to the     *)
(* implementation.  Strings of no form below are invalid dates.            *)
(***************************************************************************)
Envs == [tzEast : BOOLEAN, lenient : BOOLEAN]

IsLeap(y) == (y % 4 = 0 /\ y % 100 # 0) \/ y % 400 = 0

DaysInMonth(y, m) ==
    IF m = 2 THEN (IF IsLeap(y) THEN 29 ELSE 28)
    ELSE IF m \in {4, 6, 9, 11} THEN 30
    ELSE 31

\* MakeDay: the day number of the civil date y-m-d (d may exceed the month).
\* yy is the year counted from March, yoe the year of its 400-year era.
DaysFromCivil(y, m, d) ==
    LET yy == IF m <= 2 THEN y - 1 ELSE y
        yoe == yy % 400
    IN  (yy \div 400) * 146097 + yoe * 365 + yoe \div 4 - yoe \div 100
            + (153 * ((m + 9) % 12) + 2) \div 5 + d - 1 - 719468

\* YearFromTime, MonthFromTime, DateFromTime of a day number: doe is the day
\* of the 400-year era, yoe the year of the era, doy the day of the year
\* counted from March 1, mp the month counted from March.
CivilFromDays(z) ==
    LET doe == (z + 719468) % 146097
        yoe == (doe - doe \div 1460 + doe \div 36524 - doe \div 146096) \div 365
        doy == doe - (365 * yoe + yoe \div 4 - yoe \div 100)
        mp == (5 * doy + 2) \div 153
    IN  [y |-> yoe + ((z + 719468) \div 146097) * 400
                + (IF mp < 10 THEN 0 ELSE 1),
         m |-> IF mp < 10 THEN mp + 3 ELSE mp - 9,
         d |-> doy - (153 * mp + 2) \div 5 + 1]

InvalidDate == [valid |-> FALSE, day |-> 0]

ValidDate(day) == [valid |-> TRUE, day |-> day]

\* floor(m * 10^j / 864), by long division.
RECURSIVE ShiftDiv864(_, _, _)
ShiftDiv864(q, r, j) ==
    IF j = 0 THEN q
    ELSE ShiftDiv864(10 * q + (10 * r) \div 864, (10 * r) % 864, j - 1)

\* The date of a time value of m * 10^(-e) milliseconds (TimeClip: at most
\* 8.64e15 of them); a fraction of a millisecond is cut off towards zero.
DateOfNumber(m, e) ==
    LET d == NumDigits(Abs(m))
    IN  IF e >= 10 THEN ValidDate(0)
        ELSE IF e > 0
        THEN ValidDate(((IF m < 0 THEN -1 ELSE 1) * (Abs(m) \div Pow10(e)))
                            \div 86400000)
        ELSE IF \/ d - e <= 15
                \/ d - e = 16
                    /\ (IF d >= 10 THEN TRUE
                        ELSE IF d >= 3 THEN Abs(m) <= 864 * Pow10(d - 3)
                        ELSE Abs(m) * Pow10(3 - d) <= 864)
        THEN ValidDate(IF -e <= 5 THEN m \div (86400000 \div Pow10(-e))
                       ELSE ShiftDiv864(m \div 864, m % 864, -e - 5))
        ELSE InvalidDate

AllDigits(s, i, n) == \A j \in i..(i + n - 1) : IsDigit(CharAt(s, j))

\* The date-only forms of the ECMAScript date-time string format, read as UTC:
\* YYYY, YYYY-MM, YYYY-MM-DD.
IsoDate(s) ==
    LET y == DigitsVal(s, 1, 4)
        m == IF Len(s) >= 7 THEN DigitsVal(s, 6, 2) ELSE 1
        d == IF Len(s) = 10 THEN DigitsVal(s, 9, 2) ELSE 1
    IN  IF /\ Len(s) \in {4, 7, 10}
           /\ AllDigits(s, 1, 4)
           /\ Len(s) >= 7 => s[5] = "-" /\ AllDigits(s, 6, 2)
           /\ Len(s) = 10 => s[8] = "-" /\ AllDigits(s, 9, 2)
           /\ m \in 1..12
           /\ d \in 1..DaysInMonth(y, m)
        THEN ValidDate(DaysFromCivil(y, m, d))
        ELSE InvalidDate

\* Three groups of digits separated by "-" or "/": the lengths of the groups,
\* or <<>> when t has no such shape.
DateGroups(t) ==
    LET a == DigitRun(t, 1)
        b == DigitRun(t, a + 2)
        c == DigitRun(t, a + b + 3)
    IN  IF /\ a >= 1 /\ b >= 1 /\ c >= 1
           /\ CharAt(t, a + 1) \in {"-", "/"}
           /\ CharAt(t, a + b + 2) \in {"-", "/"}
           /\ a + b + c + 2 = Len(t)
           /\ a <= 6 /\ b <= 6 /\ c <= 6
        THEN <<a, b, c>>
        ELSE <<>>

\* Local midnight of day, as a UTC day.
LocalMidnight(day, env) == ValidDate(IF env.tzEast THEN day - 1 ELSE day)

\* A year of one or two digits is of the century around 2000.
LegacyYear(n, digits) ==
    IF digits <= 2 THEN (IF n < 50 THEN 2000 + n ELSE 1900 + n) ELSE n

\* M/D/YYYY with a real calendar day (plain) is a date for every engine; the
\* other readings (year first, short years, "-" between the groups, a day
\* past the end of the month, surrounding white space) only for a lenient
\* one.
LegacyCivil(plain, y, m, d, env) ==
    IF /\ m \in 1..12
       /\ d \in 1..31
       /\ (plain /\ d <= DaysInMonth(y, m)) \/ env.lenient
    THEN LocalMidnight(DaysFromCivil(y, m, 1) + d - 1, env)
    ELSE InvalidDate

\* The fallback parser of the engine, on groups of digits.
LegacyDate(s, env) ==
    LET t == trim(s)
        g == DateGroups(t)
        n1 == DigitsVal(t, 1, g[1])
        n2 == DigitsVal(t, g[1] + 2, g[2])
        n3 == DigitsVal(t, g[1] + g[2] + 3, g[3])
    IN  IF g = <<>> THEN InvalidDate
        ELSE IF g[1] >= 3 \/ n1 > 31
        THEN LegacyCivil(FALSE, LegacyYear(n1, g[1]), n2, n3, env)
        ELSE LegacyCivil(/\ t = s
                         /\ g[1] <= 2 /\ g[2] <= 2 /\ g[3] = 4
                         /\ t[g[1] + 1] = "/"
                         /\ t[g[1] + g[2] + 2] = "/",
                         LegacyYear(n3, g[3]), n1, n2, env)

\* Date.parse(string)
DateParse(s, env) ==
    IF IsoDate(s).valid THEN IsoDate(s) ELSE LegacyDate(s, env)

\* new Date(value)
NewDate(v, env) ==
    CASE v.k = "string" -> DateParse(v.s, env)
      [] v.k = "num" -> DateOfNumber(v.m, v.e)
      [] v.k = "boolean" -> ValidDate(0)
      [] v.k = "null" -> ValidDate(0)
      [] OTHER -> InvalidDate

Pad(n, width) == Zeros(width - NumDigits(n)) \o NatToChars(n)

\* The first ten characters, or the thirteen of an expanded year, of
\* date.toISOString() of a valid date
toISODate(date) ==
    LET c == CivilFromDays(date.day)
    IN  (IF c.y \in 0..9999 THEN Pad(c.y, 4)
         ELSE <<IF c.y < 0 THEN "-" ELSE "+">> \o Pad(Abs(c.y), 6))
            \o <<"-">> \o Pad(c.m, 2) \o <<"-">> \o Pad(c.d, 2)

\* date.toISOString().split('T')[0]: toISOString throws a RangeError when the
\* time value of the date is NaN.
toISOStringDay(date) ==
    IF date.valid THEN Str(toISODate(date))
    ELSE Thrown(<<"R", "a", "n", "g", "e", "E", "r", "r", "o", "r">>)

\* value.toString(): null and undefined have no properties to read.
valueToString(value) ==
    IF value.k \in {"null", "undefined"}
    THEN Thrown(<<"T", "y", "p", "e", "E", "r", "r", "o", "r">>)
    ELSE Str(toString(value))

\* /\d{1,4}[-\/]\d{1,2}[-\/]\d{1,4}/ finds a match somewhere in s.
MatchesDatePattern(s) ==
    \E i \in DOMAIN s : \E n \in 1..2 :
        /\ s[i] \in {"-", "/"}
        /\ IsDigit(CharAt(s, i - 1))
        /\ AllDigits(s, i + 1, n)
        /\ CharAt(s, i + n + 1) \in {"-", "/"}
        /\ IsDigit(CharAt(s, i + n + 2))

(***************************************************************************)
(* Type inference and value normalisation (ExcelUploader).                 *)
(***************************************************************************)
\* Field['type']
FieldTypes == {"text", "number", "date", "email", "boolean"}

BooleanWords == {<<"t", "r", "u", "e">>, <<"f", "a", "l", "s", "e">>,
                 <<"y", "e", "s">>, <<"n", "o">>, <<"Y">>, <<"N">>}

\* The date rule before the number rule, and without the date pattern.
detectFieldType_DateFirst(value, env) ==
    IF IsEmptyCell(value) THEN "text"
    ELSE IF typeof(value) = "boolean"
            \/ (value.k = "string" /\ value.s \in BooleanWords)
    THEN "boolean"
    ELSE IF NewDate(value, env).valid THEN "date"
    ELSE IF ~isNaN(Number(value)) /\ ~isNaN(parseFloat(value)) THEN "number"
    ELSE IF typeof(value) = "string" /\ includes(value.s, "@")
            /\ includes(value.s, ".")
    THEN "email"
    ELSE "text"

detectFieldType(value, env) ==
    IF IsEmptyCell(value) THEN "text"
    ELSE IF typeof(value) = "boolean"
            \/ (value.k = "string" /\ value.s \in BooleanWords)
    THEN "boolean"
    ELSE IF ~isNaN(Number(value)) /\ ~isNaN(parseFloat(value)) THEN "number"
    ELSE IF NewDate(value, env).valid /\ MatchesDatePattern(toString(value))
    THEN "date"
    ELSE IF typeof(value) = "string" /\ includes(value.s, "@")
            /\ includes(value.s, ".")
    THEN "email"
    ELSE "text"

TruthyWords == {<<"t", "r", "u", "e">>, <<"y", "e", "s">>, <<"y">>, <<"1">>}

\* A date branch that calls toISOString without looking at getTime().
convertValue_NoValidityCheck(value, type, env) ==
    LET n == Number(value)
        date == NewDate(value, env)
        str == valueToString(value)
    IN  IF IsEmptyCell(value)
        THEN (IF type = "number" THEN Num(0, 0)
              ELSE IF type = "boolean" THEN Bool(FALSE)
              ELSE Str(<<>>))
        ELSE CASE type = "number" ->
                    IF isNaN(n) \/ n = Num(0, 0) THEN Num(0, 0) ELSE n
               [] type = "boolean" ->
                    IF typeof(value) = "boolean" THEN value
                    ELSE IF str.k = "throw" THEN str
                    ELSE Bool(toLowerCase(str.s) \in TruthyWords)
               [] type = "date" -> toISOStringDay(date)
               [] OTHER -> str

convertValue(value, type, env) ==
    LET n == Number(value)
        date == NewDate(value, env)
        str == valueToString(value)
    IN  IF IsEmptyCell(value)
        THEN (IF type = "number" THEN Num(0, 0)
              ELSE IF type = "boolean" THEN Bool(FALSE)
              ELSE Str(<<>>))
        ELSE CASE type = "number" ->
                    IF isNaN(n) \/ n = Num(0, 0) THEN Num(0, 0) ELSE n
               [] type = "boolean" ->
                    IF typeof(value) = "boolean" THEN value
                    ELSE IF str.k = "throw" THEN str
                    ELSE Bool(toLowerCase(str.s) \in TruthyWords)
               [] type = "date" ->
                    IF date.valid THEN toISOStringDay(date) ELSE Str(<<>>)
               [] OTHER -> str

(***************************************************************************)
(* The sheet (ExcelUploader.processExcelFile, the body of reader.onload).  *)
(* jsonData is a sequence of rows, a row a sequence of cells; a cell the   *)
(* sheet does not hold is a hole of the row's sparse array.                *)
(***************************************************************************)
Hole == [k |-> "hole", s |-> <<>>, m |-> 0, e |-> 0, b |-> FALSE]

\* row[index], with index counted from 1
Cell(row, i) ==
    IF i \in DOMAIN row /\ row[i].k # "hole" THEN row[i] ELSE Undefined

\* cell !== null && cell !== undefined && cell !== '' (some() skips holes)
NonEmptyCell(c) == c.k # "hole" /\ ~IsEmptyCell(c)

ErrRows == "Excel file must have at least a header row and one data row"

ErrTypeError == "Cannot read properties of undefined (reading 'toString')"

NoPreview == [set |-> FALSE, fields |-> <<>>, data |-> <<>>]

\* The entry of the fields array at a hole of the header row: map() skips it.
NoField == [id |-> <<>>, name |-> <<>>, type |-> "hole", required |-> FALSE]

FieldId(index, now) ==
    <<"f", "i", "e", "l", "d", "_">> \o NatToChars(index) \o <<"_">>
        \o NatToChars(now)

RowId(rowIndex, now) ==
    <<"r", "o", "w", "_">> \o NatToChars(rowIndex) \o <<"_">> \o NatToChars(now)

ColumnName(n) == <<"C", "o", "l", "u", "m", "n", " ">> \o NatToChars(n)

IdKey == <<"i", "d">>

\* The non-empty values of column i; of .slice(0, 5) of them the code reads
\* the first.
sampleValues(dataRows, i) ==
    SelectSeq([r \in DOMAIN dataRows |-> Cell(dataRows[r], i)],
              LAMBDA val : ~IsEmptyCell(val))

\* headers.map((header, index) => ...), index counted from 1 here
FieldOfHeader(header, i, samples, now, env) ==
    IF header.k = "hole" THEN NoField
    ELSE [id       |-> FieldId(i - 1, now),
          name     |-> IF trim(toString(header)) # <<>>
                       THEN trim(toString(header))
                       ELSE ColumnName(i),
          type     |-> IF Len(samples) > 0
                       THEN detectFieldType(samples[1], env)
                       ELSE "text",
          required |-> FALSE]

FieldsOf(headers, dataRows, now, env) ==
    [i \in DOMAIN headers |->
        FieldOfHeader(headers[i], i, sampleValues(dataRows, i), now, env)]

\* rowData[key] once fields.forEach is through: named are the fields of that
\* name, and the last of them assigned last.
RowValue(row, rowIndex, fields, named, now, env) ==
    IF named = {} THEN Str(RowId(rowIndex, now))
    ELSE convertValue(Cell(row, CHOOSE i \in named : \A j \in named : j <= i),
                      fields[CHOOSE i \in named : \A j \in named : j <= i].type,
                      env)

\* The row object: the id, then fields.forEach assigns rowData[field.name].
RowOf(row, rowIndex, fields, now, env) ==
    [key \in {IdKey} \cup {fields[i].name :
                            i \in {j \in DOMAIN fields : fields[j].type # "hole"}}
        |-> RowValue(row, rowIndex, fields,
                     {i \in DOMAIN fields :
                        fields[i].type # "hole" /\ fields[i].name = key},
                     now, env)]

\* A filter that looks at the first cell of a row only.
KeptRows_FirstCell(dataRows) ==
    SelectSeq(dataRows, LAMBDA row : 1 \in DOMAIN row /\ NonEmptyCell(row[1]))

\* dataRows.filter(row => row.some(cell => ...))
KeptRows(dataRows) ==
    SelectSeq(dataRows, LAMBDA row : \E c \in DOMAIN row : NonEmptyCell(row[c]))

TableData(kept, fields, now, env) ==
    [r \in DOMAIN kept |-> RowOf(kept[r], r - 1, fields, now, env)]

PreviewOf(fields, dataRows, now, env) ==
    [set    |-> TRUE,
     fields |-> fields,
     data   |-> TableData(KeptRows(dataRows), fields, now, env)]

Failure(message) == [ok |-> FALSE, error |-> message, preview |-> NoPreview]

\* A row check that asks for the header row only.
ParseSheet_HeaderSuffices(jsonData, now, env) ==
    IF Len(jsonData) < 1 THEN Failure(ErrRows)
    ELSE IF \E i \in DOMAIN jsonData[1] :
                jsonData[1][i].k \in {"null", "undefined"}
    THEN Failure(ErrTypeError)
    ELSE [ok |-> TRUE, error |-> "",
          preview |-> PreviewOf(FieldsOf(jsonData[1], Tail(jsonData), now, env),
                                Tail(jsonData), now, env)]

\* The try block of reader.onload, after XLSX has read the sheet.
ParseSheet(jsonData, now, env) ==
    IF Len(jsonData) < 2 THEN Failure(ErrRows)
    ELSE IF \E i \in DOMAIN jsonData[1] :
                jsonData[1][i].k \in {"null", "undefined"}
    THEN Failure(ErrTypeError)
    ELSE [ok |-> TRUE, error |-> "",
          preview |-> PreviewOf(FieldsOf(jsonData[1], Tail(jsonData), now, env),
                                Tail(jsonData), now, env)]

(***************************************************************************)
(* File acceptance (ExcelUploader.handleFileSelect).                       *)
(***************************************************************************)
EndsWith(s, p) ==
    Len(s) >= Len(p) /\ SubSeq(s, Len(s) - Len(p) + 1, Len(s)) = p

\* file.name.match(/\.(xlsx|xls|csv)$/i)
MatchesSheetExtension(name) ==
    LET l == toLowerCase(name)
    IN  \/ EndsWith(l, <<".", "x", "l", "s", "x">>)
        \/ EndsWith(l, <<".", "x", "l", "s">>)
        \/ EndsWith(l, <<".", "c", "s", "v">>)

MaxFileSize == 10 * 1024 * 1024

ErrFileType == "Please select a valid Excel file (.xlsx, .xls) or CSV file"

ErrFileSize == "File size must be less than 10MB"

ErrRead == "Failed to read file"

ErrLibrary == "Excel processing library failed to load"

ErrParse == "Failed to process Excel file"

ErrTemplate == "Failed to download template. Please try again."

ErrTest == "Test: Modal is working! You can close this message."

NoError == "null"

(***************************************************************************)
(* State.                                                                  *)
(*   fields, data        App: the live field list and row list             *)
(*   showExcelUploader   FieldBuilder: the import dialog is mounted        *)
(*   isDragging, isProcessing, error, preview                              *)
(*                       ExcelUploader: the state of the mounted dialog    *)
(*   loading, reading    imports of the mounted dialog that wait for the   *)
(*                       library to load / for the file read to end        *)
(*   stale               imports in flight that belong to a dialog that    *)
(*                       was unmounted: their callbacks set no state       *)
(*   isAuthenticated, activeTab                                            *)
(*                       App: the login state and the tab that is shown    *)
(*   localStorage        the entries dynamicApp_authenticated,             *)
(*                       dynamicApp_fields and dynamicApp_data; a JSON     *)
(*                       text is held as the value it denotes              *)
(*   isAddingField, newField, editingFieldId                               *)
(*                       FieldBuilder: the add form and the field edited   *)
(*   isAddingRow, newRow, editingRowId                                     *)
(*                       DataTable: the add form and the row edited        *)
(*   chartConfig         ChartBuilder: the chart type and the axes         *)
(*   now                 Date.now()                                        *)
(*   lastEvent           the handler that ran last, with its input         *)
(*   probe               the input and the result of a function applied    *)
(*                       on its own (SpecDetect, SpecSheet)                *)
(***************************************************************************)
VARIABLES fields, data, showExcelUploader, isDragging, isProcessing, error,
          preview, loading, reading, stale, now, lastEvent, probe,
          isAuthenticated, activeTab, localStorage, isAddingField, newField,
          editingFieldId, isAddingRow, newRow, editingRowId, chartConfig

vars == <<fields, data, showExcelUploader, isDragging, isProcessing, error,
          preview, loading, reading, stale, now, lastEvent, probe,
          isAuthenticated, activeTab, localStorage, isAddingField, newField,
          editingFieldId, isAddingRow, newRow, editingRowId, chartConfig>>

storeVars == <<fields, data>>

uploaderVars == <<isDragging, isProcessing, error, preview>>

flightVars == <<loading, reading, stale>>

builderVars == <<isAddingField, newField, editingFieldId>>

tableVars == <<isAddingRow, newRow, editingRowId>>

\* What the handlers of the import dialog leave alone.
pageVars == <<isAuthenticated, activeTab, builderVars, tableVars, chartConfig>>

(***************************************************************************)
(* Inputs.                                                                 *)
(***************************************************************************)
File(name, size) == [name |-> name, size |-> size]

NoFile == File(<<>>, 0)

FileNames == {<<"a", ".", "x", "l", "s", "x">>, <<"a", ".", "X", "L", "S">>,
              <<"a", ".", "c", "s", "v">>, <<"a", ".", "t", "x", "t">>,
              <<"x", "l", "s", "x">>,
              <<"a", ".", "x", "l", "s", ".", "p", "d", "f">>}

FileSizes == {MaxFileSize, MaxFileSize + 1}

Files == {File(n, z) : n \in FileNames, z \in FileSizes}

Ann == <<"A", "n", "n">>

RoundTripSheet ==
    << <<Str(<<"N", "a", "m", "e">>), Str(<<"A", "g", "e">>),
         Str(<<"A", "c", "t", "i", "v", "e">>)>>,
       <<Str(Ann), Str(<<"3", "0">>), Str(<<"Y", "e", "s">>)>>,
       <<Str(<<>>), Str(<<>>), Str(<<>>)>> >>

HeaderOnlySheet == << <<Str(<<"N", "a", "m", "e">>), Str(<<"A", "g", "e">>)>> >>

ScoreSheet ==
    << <<Str(<<"N", "a", "m", "e">>), Str(<<"S", "c", "o", "r", "e">>)>>,
       <<Str(<<"B", "o", "b">>), Num(7, 0)>>,
       <<Str(Ann), Num(15, 1)>> >>

\* The sheets a file read delivers in the dialog's state machine.
DialogSheets == {<<>>, HeaderOnlySheet, RoundTripSheet}

\* The environments of the dialog's state machine.
DialogEnvs == {[tzEast |-> FALSE, lenient |-> FALSE],
               [tzEast |-> TRUE, lenient |-> TRUE]}

Event(op) ==
    [op |-> op, file |-> NoFile, sheet |-> <<>>, parsed |-> TRUE, login |-> <<>>]

(***************************************************************************)
(* The inputs of detectFieldType and of the body of reader.onload applied  *)
(* on their own: the first state holds the input in probe, the one step    *)
(* applies the function to it.                                             *)
(***************************************************************************)
\* Strings of up to MaxLen characters of the alphabet.
Alphabet == {"0", "1", "9", "-", "+", ".", "e", "@", " ", "Y", "n", "o"}

ShortStrings == UNION {[1..k -> Alphabet] : k \in 0..MaxLen}

\* Three groups of digits with "-" or "/" between them.
DigitGroups == {<<"1">>, <<"1", "2">>, <<"1", "3">>, <<"3", "1">>, <<"3", "2">>,
                <<"0", "2">>, <<"2", "0", "2", "4">>}

DateLikeStrings ==
    {g1 \o <<s1>> \o g2 \o <<s2>> \o g3 :
        g1 \in DigitGroups, g2 \in DigitGroups, g3 \in DigitGroups,
        s1 \in {"-", "/"}, s2 \in {"-", "/"}}

JohnEmail == <<"j", "o", "h", "n", "@", "e", "x", "a", "m", "p", "l", "e", ".",
               "c", "o", "m">>

Jan15 == <<"2", "0", "2", "4", "-", "0", "1", "-", "1", "5">>

Year2024 == <<"2", "0", "2", "4">>

LongStrings ==
    {Jan15, JohnEmail, Year2024, InfinityChars,
     <<"-">> \o InfinityChars,
     <<"1", "e", "9", "9", "9">>,
     <<"4", "2">>,
     <<"Y", "e", "s">>, <<"N", "o">>, <<"T", "r", "u", "e">>, <<"N">>,
     <<"F", "a", "l", "s", "e">>,
     <<"t", "r", "u", "e">>, <<"f", "a", "l", "s", "e">>, <<"y", "e", "s">>,
     <<"2", "0", "2", "4", "-", "0", "2", "-", "3", "0">>,
     <<"2", "0", "2", "4", "-", "0", "1">>,
     <<" ">> \o Jan15,
     Jan15 \o <<"T">>,
     <<"o", "n", " ">> \o Jan15,
     <<"1", "-", "2", "-", "3", "@", "x", ".", "y">>,
     <<"a", "@", "b">>,
     <<"1", "2", "p", "x">>,
     <<"0", "x", "1", "F">>,
     <<"1", ",", "0", "0", "0">>,
     Ann}

\* Cells that are not strings: what a sheet holds besides text.
OtherValues ==
    {Null, Undefined, Bool(TRUE), Bool(FALSE), NaN, Inf(1), Inf(-1),
     Num(0, 0), Num(42, 0), Num(2024, 0), Num(15, 1), Num(-1, 0),
     Num(1, -9), Num(1, -21), Num(1, 7)}

SampleValues ==
    {Str(s) : s \in ShortStrings \cup DateLikeStrings \cup LongStrings}
        \cup OtherValues

HeaderCells == {Str(<<"N", "a", "m", "e">>), Str(IdKey), Str(<<>>), Hole}

SheetCells == {Str(<<"3", "0">>), Str(<<"Y">>), Str(<<>>), Hole}

RowsOver(cells) == UNION {[1..k -> cells] : k \in 0..2}

\* A header row and up to MaxRows rows under it.
GridSheets ==
    {<<h>> \o rows : h \in RowsOver(HeaderCells),
                     rows \in UNION {[1..k -> RowsOver(SheetCells)] :
                                        k \in 0..MaxRows}}

Probe(op, value, sheet, env) ==
    [op |-> op, value |-> value, sheet |-> sheet, env |-> env, done |-> FALSE,
     type |-> "", result |-> Undefined, outcome |-> Failure("")]

NoProbe ==
    Probe("none", Undefined, <<>>, [tzEast |-> FALSE, lenient |-> FALSE])

(***************************************************************************)
(* The page: what App, FieldBuilder, DataTable and ChartBuilder hold and   *)
(* compute.  A row is a function from its keys to their values.            *)
(***************************************************************************)
\* The bound of the model on the fields that are added by hand.
MaxFields == 1

\* The bound of the model on the clock of the page, which advances with
\* every handler that reads it or changes the fields or the rows.
MaxClock == 4

\* localStorage.getItem(key): null, or the text that was set.
NoItem == [set |-> FALSE, json |-> <<>>]

Item(json) == [set |-> TRUE, json |-> json]

\* JSON.stringify(fields): a hole of the array is written as null.
stringifyFields(list) ==
    [i \in DOMAIN list |->
        IF list[i].type = "hole" THEN [list[i] EXCEPT !.type = "null"]
        ELSE list[i]]

\* JSON.stringify(data): a key that holds undefined is left out, NaN and the
\* infinities are written as null.
stringifyData(list) ==
    [i \in DOMAIN list |->
        [key \in {k \in DOMAIN list[i] : list[i][k].k # "undefined"} |->
            IF list[i][key].k \in {"nan", "inf"} THEN Null ELSE list[i][key]]]

\* Save effects that do not look at isAuthenticated.
SaveEffects_Unguarded(store, auth, setsFields, setsData) ==
    localStorage' =
        [store EXCEPT
            !.fields = IF setsFields
                       THEN Item(stringifyFields(fields')) ELSE @,
            !.data = IF setsData
                     THEN Item(stringifyData(data')) ELSE @]

\* The save effects of App run after a render in which fields (setsFields),
\* data (setsData) or isAuthenticated (both) are new, and write only while
\* authenticated (auth is isAuthenticated in that render).
SaveEffects(store, auth, setsFields, setsData) ==
    localStorage' =
        [store EXCEPT
            !.fields = IF auth /\ setsFields
                       THEN Item(stringifyFields(fields')) ELSE @,
            !.data = IF auth /\ setsData
                     THEN Item(stringifyData(data')) ELSE @]

\* FieldBuilder: useState of newField
NoDraft == [name |-> <<>>, type |-> "text", required |-> FALSE]

\* ChartBuilder: useState of chartConfig (the title is left out)
InitialChartConfig == [type |-> "bar", xAxis |-> Undefined, yAxis |-> <<>>]

\* What a value counts for in a condition.
Truthy(v) ==
    /\ v.k \notin {"null", "undefined", "nan", "hole"}
    /\ v # Str(<<>>)
    /\ v # Num(0, 0)
    /\ v # Bool(FALSE)

\* row[key]
Get(row, key) == IF key \in DOMAIN row THEN row[key] ELSE Undefined

\* { ...row, [key]: value }
Put(row, key, value) ==
    [k \in DOMAIN row \cup {key} |-> IF k = key THEN value ELSE row[k]]

\* DataTable.getDefaultValue
getDefaultValue(type) ==
    CASE type = "number" -> Num(0, 0)
      [] type = "boolean" -> Bool(FALSE)
      [] OTHER -> Str(<<>>)

\* The value that the spread of fields.reduce leaves under key: that of the
\* last field of that name, or the id where no field has the name.
NewRowValue(id, draft, named, list) ==
    IF named = {} THEN id
    ELSE IF Truthy(Get(draft, list[CHOOSE i \in named : \A j \in named : j <= i].name))
    THEN draft[list[CHOOSE i \in named : \A j \in named : j <= i].name]
    ELSE getDefaultValue(list[CHOOSE i \in named : \A j \in named : j <= i].type)

\* The row of DataTable.addRow: { id, ...fields.reduce(...) }
NewRow(id, draft, list) ==
    [key \in {IdKey} \cup {list[i].name :
                            i \in {j \in DOMAIN list : list[j].type # "hole"}}
        |-> NewRowValue(id, draft,
                        {i \in DOMAIN list :
                            list[i].type # "hole" /\ list[i].name = key},
                        list)]

\* ChartBuilder: fields.filter(field => field.type === 'number')
numericFields(list) == SelectSeq(list, LAMBDA field : field.type = "number")

\* Number addition: the sum of an infinity and the opposite one is NaN.
Add(a, b) ==
    CASE a.k = "nan" \/ b.k = "nan" -> NaN
      [] a.k = "inf" /\ b.k = "inf" -> IF a.m = b.m THEN a ELSE NaN
      [] a.k = "inf" -> a
      [] b.k = "inf" -> b
      [] OTHER -> IF a.e >= b.e
                  THEN Num(a.m + b.m * Pow10(a.e - b.e), a.e)
                  ELSE Num(a.m * Pow10(b.e - a.e) + b.m, b.e)

LabelKey == <<"l", "a", "b", "e", "l">>

IndexKey == <<"i", "n", "d", "e", "x">>

\* The point of chartData for the row at index (counted from 1): index, then
\* label, then one key for each name of yAxis are assigned in this order.
PointOf(row, index, config) ==
    [key \in {IndexKey, LabelKey} \cup {config.yAxis[j] : j \in DOMAIN config.yAxis}
        |-> IF \E j \in DOMAIN config.yAxis : config.yAxis[j] = key
            THEN (IF typeof(Get(row, key)) = "number" THEN row[key]
                  ELSE Num(0, 0))
            ELSE IF key = IndexKey THEN Num(index, 0)
            ELSE IF Truthy(config.xAxis) /\ Truthy(Get(row, config.xAxis.s))
            THEN row[config.xAxis.s]
            ELSE Str(<<"R", "o", "w", " ">> \o NatToChars(index))]

\* ChartBuilder.chartData
chartData(rows, config) ==
    [i \in DOMAIN rows |-> PointOf(rows[i], i, config)]

\* chartData.reduce((sum, item) => sum + (item[fieldName] || 0), 0)
RECURSIVE SumOf(_, _)
SumOf(points, fieldName) ==
    IF points = <<>> THEN Num(0, 0)
    ELSE Add(SumOf(SubSeq(points, 1, Len(points) - 1), fieldName),
             IF Truthy(points[Len(points)][fieldName])
             THEN points[Len(points)][fieldName]
             ELSE Num(0, 0))

\* A pie that has one slice per row whatever the number of selected fields.
pieData_SlicePerRow(points, config) ==
    [i \in DOMAIN points |->
        [name |-> points[i][LabelKey], value |-> points[i][config.yAxis[1]]]]

\* pieData of ChartBuilder.renderChart
pieData(points, config) ==
    IF Len(config.yAxis) = 1
    THEN [i \in DOMAIN points |->
            [name |-> points[i][LabelKey], value |-> points[i][config.yAxis[1]]]]
    ELSE [j \in DOMAIN config.yAxis |->
            [name |-> Str(config.yAxis[j]),
             value |-> SumOf(points, config.yAxis[j])]]

(***************************************************************************)
(* The state the page starts in: nobody imported anything yet.             *)
(***************************************************************************)
\* The components of the page as they mount.
Mounted ==
    /\ showExcelUploader = FALSE
    /\ isDragging = FALSE
    /\ isProcessing = FALSE
    /\ error = NoError
    /\ preview = NoPreview
    /\ loading = 0
    /\ reading = 0
    /\ stale = 0
    /\ isAddingField = FALSE
    /\ newField = NoDraft
    /\ editingFieldId = Null
    /\ isAddingRow = FALSE
    /\ newRow = <<>>
    /\ editingRowId = Null
    /\ chartConfig = InitialChartConfig

\* The first visit, after the login: the Fields tab is shown, the store is
\* empty and saved, the dialog is not mounted.
Idle ==
    /\ fields = <<>>
    /\ data = <<>>
    /\ isAuthenticated = TRUE
    /\ activeTab = "fields"
    /\ localStorage = [authenticated |-> TRUE,
                       fields |-> Item(<<>>), data |-> Item(<<>>)]
    /\ Mounted
    /\ now = 0
    /\ lastEvent = Event("init")

Init == Idle /\ probe = NoProbe

(***************************************************************************)
(* FieldBuilder: the dialog is opened and closed.                          *)
(***************************************************************************)
\* The unmounted dialog keeps no state; what it had in flight goes stale.
Unmount ==
    /\ showExcelUploader' = FALSE
    /\ isDragging' = FALSE
    /\ isProcessing' = FALSE
    /\ error' = NoError
    /\ preview' = NoPreview
    /\ loading' = 0
    /\ reading' = 0
    /\ stale' = stale + loading + reading

\* The page is shown and the dialog does not cover it.
PageShown == isAuthenticated /\ ~showExcelUploader

\* onClick of "Import Excel": setShowExcelUploader(true)
openExcelUploader ==
    /\ PageShown
    /\ activeTab = "fields"
    /\ showExcelUploader' = TRUE
    /\ lastEvent' = Event("open")
    /\ UNCHANGED <<storeVars, uploaderVars, flightVars, now, probe,
                   pageVars, localStorage>>

\* onClose of the header's X button and of a click on the backdrop
onClose ==
    /\ showExcelUploader
    /\ Unmount
    /\ lastEvent' = Event("close")
    /\ UNCHANGED <<storeVars, now, probe, pageVars, localStorage>>

\* A Cancel button wired to the confirm handler.
cancelPreview_Imports ==
    /\ showExcelUploader
    /\ preview.set
    /\ fields' = preview.fields
    /\ data' = preview.data
    /\ SaveEffects(localStorage, isAuthenticated, TRUE, TRUE)
    /\ Unmount
    /\ lastEvent' = Event("cancel")
    /\ UNCHANGED <<now, probe, pageVars>>

\* onClose of the preview's Cancel button
cancelPreview ==
    /\ showExcelUploader
    /\ preview.set
    /\ Unmount
    /\ lastEvent' = Event("cancel")
    /\ UNCHANGED <<storeVars, now, probe, pageVars, localStorage>>

\* A callback of an unmounted dialog runs: its setters change nothing.
staleSettles ==
    /\ stale > 0
    /\ stale' = stale - 1
    /\ lastEvent' = Event("stale")
    /\ UNCHANGED <<storeVars, showExcelUploader, uploaderVars, loading, reading,
                   now, probe, pageVars, localStorage>>

(***************************************************************************)
(* ExcelUploader: choosing a file.                                         *)
(***************************************************************************)
\* processExcelFile(file) up to its first await
processExcelFile ==
    /\ isProcessing' = TRUE
    /\ error' = NoError
    /\ loading' = loading + 1
    /\ UNCHANGED <<preview, reading, stale>>

\* A size check that refuses a file of exactly the limit.
handleFileSelect_SizeInclusive(file) ==
    IF ~MatchesSheetExtension(file.name)
    THEN /\ error' = ErrFileType
         /\ UNCHANGED <<isProcessing, preview, flightVars>>
    ELSE IF file.size >= MaxFileSize
    THEN /\ error' = ErrFileSize
         /\ UNCHANGED <<isProcessing, preview, flightVars>>
    ELSE processExcelFile

handleFileSelect(file) ==
    IF ~MatchesSheetExtension(file.name)
    THEN /\ error' = ErrFileType
         /\ UNCHANGED <<isProcessing, preview, flightVars>>
    ELSE IF file.size > MaxFileSize
    THEN /\ error' = ErrFileSize
         /\ UNCHANGED <<isProcessing, preview, flightVars>>
    ELSE processExcelFile

\* The upload area is rendered while there is no preview.
UploadAreaShown == showExcelUploader /\ ~preview.set

\* The bound of the model on the imports in flight.
InFlightBounded == loading + reading + stale <= MaxInFlight

handleDrop ==
    /\ UploadAreaShown
    /\ isDragging' = FALSE
    /\ \/ /\ lastEvent' = Event("drop")
          /\ UNCHANGED <<isProcessing, error, preview, flightVars>>
       \/ \E file \in Files :
            /\ handleFileSelect(file)
            /\ InFlightBounded'
            /\ lastEvent' = [Event("drop") EXCEPT !.file = file]
    /\ UNCHANGED <<storeVars, showExcelUploader, now, probe,
                   pageVars, localStorage>>

handleDragOver ==
    /\ UploadAreaShown
    /\ isDragging' = TRUE
    /\ lastEvent' = Event("dragover")
    /\ UNCHANGED <<storeVars, showExcelUploader, isProcessing, error, preview,
                   flightVars, now, probe, pageVars, localStorage>>

handleDragLeave ==
    /\ UploadAreaShown
    /\ isDragging' = FALSE
    /\ lastEvent' = Event("dragleave")
    /\ UNCHANGED <<storeVars, showExcelUploader, isProcessing, error, preview,
                   flightVars, now, probe, pageVars, localStorage>>

\* "Choose File" (disabled while processing) opens the picker of the hidden
\* input; picking a file fires its change event.
handleFileInputChange ==
    /\ UploadAreaShown
    /\ ~isProcessing
    /\ \E file \in Files :
            /\ handleFileSelect(file)
            /\ InFlightBounded'
            /\ lastEvent' = [Event("change") EXCEPT !.file = file]
    /\ UNCHANGED <<storeVars, showExcelUploader, isDragging, now, probe,
                   pageVars, localStorage>>

(***************************************************************************)
(* ExcelUploader: the asynchronous steps of processExcelFile.              *)
(***************************************************************************)
\* await loadXLSX() resolves: the reader is set up, reader.readAsArrayBuffer
loadXLSXResolves ==
    /\ loading > 0
    /\ loading' = loading - 1
    /\ reading' = reading + 1
    /\ lastEvent' = Event("loaded")
    /\ UNCHANGED <<storeVars, showExcelUploader, uploaderVars, stale, now, probe,
                   pageVars, localStorage>>

\* await loadXLSX() rejects: the catch block of processFile
loadXLSXRejects ==
    /\ loading > 0
    /\ loading' = loading - 1
    /\ error' = ErrLibrary
    /\ isProcessing' = FALSE
    /\ lastEvent' = Event("loadfailed")
    /\ UNCHANGED <<storeVars, showExcelUploader, isDragging, preview, reading,
                   stale, now, probe, pageVars, localStorage>>

\* XLSX.read throws (parsed = FALSE), or sheet_to_json yields jsonData
ReadSheet(parsed, jsonData, time, env) ==
    IF parsed THEN ParseSheet(jsonData, time, env) ELSE Failure(ErrParse)

\* A catch block that drops the failure without a message.
SetOutcome_NoMessage(r, time) ==
    IF r.ok
    THEN preview' = r.preview /\ error' = error /\ now' = time
    ELSE error' = error /\ preview' = preview /\ now' = now

\* setPreview({ fields, data: tableData }), or setError in the catch block.
\* The clock was read when the fields and the rows were built.
SetOutcome(r, time) ==
    IF r.ok
    THEN preview' = r.preview /\ error' = error /\ now' = time
    ELSE error' = r.error /\ preview' = preview /\ now' = now

\* reader.onload, with time what Date.now() returns in it
readerOnLoad(parsed, jsonData, time, env) ==
    /\ reading > 0
    /\ time >= now
    /\ reading' = reading - 1
    /\ SetOutcome(ReadSheet(parsed, jsonData, time, env), time)
    /\ isProcessing' = FALSE
    /\ lastEvent' = [Event("onload") EXCEPT !.sheet = jsonData,
                                            !.parsed = parsed]
    /\ UNCHANGED <<storeVars, showExcelUploader, isDragging, loading, stale,
                   probe, pageVars, localStorage>>

\* A reader.onerror that leaves the processing flag set.
readerOnError_KeepsFlag ==
    /\ reading > 0
    /\ reading' = reading - 1
    /\ error' = ErrRead
    /\ lastEvent' = Event("onerror")
    /\ UNCHANGED <<storeVars, showExcelUploader, isDragging, isProcessing,
                   preview, loading, stale, now, probe, pageVars, localStorage>>

\* reader.onerror
readerOnError ==
    /\ reading > 0
    /\ reading' = reading - 1
    /\ error' = ErrRead
    /\ isProcessing' = FALSE
    /\ lastEvent' = Event("onerror")
    /\ UNCHANGED <<storeVars, showExcelUploader, isDragging, preview, loading,
                   stale, now, probe, pageVars, localStorage>>

(***************************************************************************)
(* ExcelUploader: the preview and the other buttons.                       *)
(***************************************************************************)
\* onClick of "Upload Different File": setPreview(null)
uploadDifferentFile ==
    /\ showExcelUploader
    /\ preview.set
    /\ preview' = NoPreview
    /\ lastEvent' = Event("different")
    /\ UNCHANGED <<storeVars, showExcelUploader, isDragging, isProcessing, error,
                   flightVars, now, probe, pageVars, localStorage>>

\* An onDataImport that replaces the fields and keeps the rows.
onDataImport_FieldsOnly(importedFields, importedData) ==
    /\ fields' = importedFields
    /\ data' = data
    /\ SaveEffects(localStorage, isAuthenticated, TRUE, FALSE)

\* App.onDataImport: setFields(importedFields); setData(importedData), and
\* the save effects of the render that follows
onDataImport(importedFields, importedData) ==
    /\ fields' = importedFields
    /\ data' = importedData
    /\ SaveEffects(localStorage, isAuthenticated, TRUE, TRUE)

\* "Import Data": onDataImport of App, then FieldBuilder and onClose unmount
handleImport ==
    /\ showExcelUploader
    /\ preview.set
    /\ onDataImport(preview.fields, preview.data)
    /\ Unmount
    /\ lastEvent' = Event("import")
    /\ UNCHANGED <<now, probe, pageVars>>

\* "Test Modal"
testModal ==
    /\ showExcelUploader
    /\ error' = ErrTest
    /\ lastEvent' = Event("test")
    /\ UNCHANGED <<storeVars, showExcelUploader, isDragging, isProcessing,
                   preview, flightVars, now, probe, pageVars, localStorage>>

\* "Clear message", rendered under an error that includes 'Test:'
clearMessage ==
    /\ UploadAreaShown
    /\ error = ErrTest
    /\ error' = NoError
    /\ lastEvent' = Event("clear")
    /\ UNCHANGED <<storeVars, showExcelUploader, isDragging, isProcessing,
                   preview, flightVars, now, probe, pageVars, localStorage>>

\* "Download Template" when loadXLSX rejects: the catch block sets the error
\* (when it resolves the file is written and no state changes).
downloadTemplate ==
    /\ UploadAreaShown
    /\ \/ error' = ErrTemplate
       \/ error' = error
    /\ lastEvent' = Event("template")
    /\ UNCHANGED <<storeVars, showExcelUploader, isDragging, isProcessing,
                   preview, flightVars, now, probe, pageVars, localStorage>>

LoadSettles == loadXLSXResolves \/ loadXLSXRejects

\* The read ends: XLSX.read throws, or the sheet is one of DialogSheets in
\* one of DialogEnvs, or the reader fails.
ReadSettles ==
    \/ readerOnLoad(FALSE, <<>>, now, [tzEast |-> FALSE, lenient |-> FALSE])
    \/ \E jsonData \in DialogSheets, time \in 0..MaxTime, env \in DialogEnvs :
            readerOnLoad(TRUE, jsonData, time, env)
    \/ readerOnError

Next ==
    \/ openExcelUploader
    \/ onClose
    \/ cancelPreview
    \/ staleSettles
    \/ handleDrop
    \/ handleDragOver
    \/ handleDragLeave
    \/ handleFileInputChange
    \/ LoadSettles
    \/ ReadSettles
    \/ uploadDifferentFile
    \/ handleImport
    \/ testModal
    \/ clearMessage
    \/ downloadTemplate

Spec == Init /\ [][Next]_vars

\* The library load and the file read of an import each end, one way or the
\* other.
FairSpec == Spec /\ WF_vars(LoadSettles) /\ WF_vars(ReadSettles)

(***************************************************************************)
(* App: login, logout and the tabs.  A component that goes away loses its  *)
(* state, and mounts again in its first state.  The handlers of the page   *)
(* run while the dialog does not cover it.                                 *)
(***************************************************************************)
\* The file and the sheet of the imports that happen among the edits.
PageFile == File(<<"a", ".", "x", "l", "s", "x">>, MaxFileSize)

PageSheet ==
    << <<Str(<<"n">>), Str(<<"m">>)>>, <<Num(7, 0), Num(7, 0)>> >>

\* The store a session saved before the page was loaded: one number field
\* and one row.
SavedFields ==
    <<[id |-> <<"0">>, name |-> <<"n">>, type |-> "number", required |-> FALSE]>>

SavedData == <<(IdKey :> Str(<<"0">>)) @@ (<<"n">> :> Num(7, 0))>>

\* What is typed and chosen: names in the add form and in the edit form,
\* types, the value of a cell of a field of the type, credentials.
DraftNames == {<<" ">>, <<" ", "i", "d">>}

EditNames == {<<>>}

TypeInputs == {"text", "number"}

CellInputs(type) ==
    CASE type = "number" -> {Num(5, 0)}
      [] type = "boolean" -> {Bool(TRUE)}
      [] OTHER -> {Str(<<"x">>)}

Credentials ==
    {<<"demo", "password">>, <<"demo", "demo">>, <<"admin", "password">>}

ChartTypes == {"bar", "pie"}

\* FieldBuilder, DataTable, ChartBuilder and the dialog go away.
UnmountPage ==
    /\ Unmount
    /\ isAddingField' = FALSE
    /\ newField' = NoDraft
    /\ editingFieldId' = Null
    /\ isAddingRow' = FALSE
    /\ newRow' = <<>>
    /\ editingRowId' = Null
    /\ chartConfig' = InitialChartConfig

\* A login whose load effect reads nothing.
LogIn_NoLoad(event) ==
    /\ isAuthenticated' = TRUE
    /\ UNCHANGED <<storeVars, showExcelUploader, uploaderVars, flightVars, now,
                   probe, activeTab, builderVars, tableVars, chartConfig>>
    /\ SaveEffects([localStorage EXCEPT !.authenticated = TRUE], TRUE, TRUE,
                   TRUE)
    /\ lastEvent' = event

\* setIsAuthenticated(true), then the load effect of App and its save
\* effects: what is saved replaces the lists, and the lists are saved.
LogIn(event) ==
    /\ isAuthenticated' = TRUE
    /\ fields' = IF localStorage.fields.set THEN localStorage.fields.json
                 ELSE fields
    /\ data' = IF localStorage.data.set THEN localStorage.data.json ELSE data
    /\ SaveEffects([localStorage EXCEPT !.authenticated = TRUE], TRUE, TRUE,
                   TRUE)
    /\ lastEvent' = event
    /\ UNCHANGED <<showExcelUploader, uploaderVars, flightVars, now, probe,
                   activeTab, builderVars, tableVars, chartConfig>>

\* The effects of App after its first render: a saved login is taken up;
\* without one the load effect and the save effects return at once.
mountEffects ==
    /\ lastEvent.op = "init"
    /\ IF localStorage.authenticated THEN LogIn(Event("page"))
       ELSE /\ UNCHANGED <<storeVars, showExcelUploader, uploaderVars,
                           flightVars, now, probe, pageVars>>
            /\ SaveEffects(localStorage, FALSE, TRUE, TRUE)
            /\ lastEvent' = Event("page")

\* A login that looks at the username only.
handleLogin_AnyPassword(username, password) ==
    /\ lastEvent.op # "init"
    /\ ~isAuthenticated
    /\ IF username = "demo"
       THEN LogIn([Event("login") EXCEPT !.login = <<username, password>>])
       ELSE /\ lastEvent' = [Event("login") EXCEPT
                                !.login = <<username, password>>]
            /\ UNCHANGED <<storeVars, showExcelUploader, uploaderVars,
                           flightVars, now, probe, pageVars, localStorage>>

\* App.handleLogin, called by the form of LoginPage: a wrong pair gets an
\* alert and changes nothing.
handleLogin(username, password) ==
    /\ lastEvent.op # "init"
    /\ ~isAuthenticated
    /\ IF username = "demo" /\ password = "password"
       THEN LogIn([Event("login") EXCEPT !.login = <<username, password>>])
       ELSE /\ lastEvent' = [Event("login") EXCEPT
                                !.login = <<username, password>>]
            /\ UNCHANGED <<storeVars, showExcelUploader, uploaderVars,
                           flightVars, now, probe, pageVars, localStorage>>

\* App.handleLogout
handleLogout ==
    /\ PageShown
    /\ isAuthenticated' = FALSE
    /\ UNCHANGED <<storeVars, now, probe, activeTab>>
    /\ SaveEffects([localStorage EXCEPT !.authenticated = FALSE], FALSE, TRUE,
                   TRUE)
    /\ UnmountPage
    /\ lastEvent' = Event("page")

\* A tab change that leaves the components mounted.
setActiveTab_KeepsState(tab) ==
    /\ PageShown
    /\ activeTab' = tab
    /\ lastEvent' = Event("page")
    /\ UNCHANGED <<storeVars, showExcelUploader, uploaderVars, flightVars, now,
                   probe, isAuthenticated, localStorage, builderVars, tableVars,
                   chartConfig>>

\* onClick of a tab: setActiveTab(tab.id); the component of the tab that was
\* shown goes away.
setActiveTab(tab) ==
    /\ PageShown
    /\ tab # activeTab
    /\ activeTab' = tab
    /\ UnmountPage
    /\ lastEvent' = Event("page")
    /\ UNCHANGED <<storeVars, now, probe, isAuthenticated, localStorage>>

(***************************************************************************)
(* FieldBuilder.                                                           *)
(***************************************************************************)
\* Time passes between two handlers that change the fields or the rows.
Tick ==
    /\ now < MaxClock
    /\ now' = now + 1

FieldBuilderShown == PageShown /\ activeTab = "fields"

\* "Add Field" (flag), and the X of the add form (~flag)
setIsAddingField(flag) ==
    /\ FieldBuilderShown
    /\ flag \/ isAddingField
    /\ isAddingField' = flag
    /\ newField' = IF flag THEN newField ELSE NoDraft
    /\ lastEvent' = Event("page")
    /\ UNCHANGED <<storeVars, showExcelUploader, uploaderVars, flightVars, now,
                   probe, isAuthenticated, activeTab, localStorage,
                   editingFieldId, tableVars, chartConfig>>

\* onChange of the name and of the type of the add form (its checkbox
\* stays as it is)
setNewField(key, value) ==
    /\ FieldBuilderShown
    /\ isAddingField
    /\ newField' = [newField EXCEPT ![key] = value]
    /\ lastEvent' = Event("page")
    /\ UNCHANGED <<storeVars, showExcelUploader, uploaderVars, flightVars, now,
                   probe, isAuthenticated, activeTab, localStorage,
                   isAddingField, editingFieldId, tableVars, chartConfig>>

\* FieldBuilder.addField, behind a button that is disabled while the name
\* is blank; time is what Date.now() returns
addField(time) ==
    /\ FieldBuilderShown
    /\ isAddingField
    /\ trim(newField.name) # <<>>
    /\ Len(fields) < MaxFields
    /\ time > now
    /\ time <= MaxClock
    /\ now' = time
    /\ fields' = Append(fields, [id       |-> NatToChars(time),
                                 name     |-> trim(newField.name),
                                 type     |-> newField.type,
                                 required |-> newField.required])
    /\ newField' = NoDraft
    /\ isAddingField' = FALSE
    /\ SaveEffects(localStorage, isAuthenticated, TRUE, FALSE)
    /\ lastEvent' = Event("page")
    /\ UNCHANGED <<data, showExcelUploader, uploaderVars, flightVars, probe,
                   isAuthenticated, activeTab, editingFieldId, tableVars,
                   chartConfig>>

\* The pencil of a field that is not edited (id), and the check mark of the
\* one that is (null)
setEditingFieldId(id) ==
    /\ FieldBuilderShown
    /\ IF id = Null
       THEN \E i \in DOMAIN fields : Str(fields[i].id) = editingFieldId
       ELSE \E i \in DOMAIN fields :
                Str(fields[i].id) = id /\ id # editingFieldId
    /\ editingFieldId' = id
    /\ lastEvent' = Event("page")
    /\ UNCHANGED <<storeVars, showExcelUploader, uploaderVars, flightVars, now,
                   probe, isAuthenticated, activeTab, localStorage,
                   isAddingField, newField, tableVars, chartConfig>>

\* FieldBuilder.updateField(id, { [key]: value }), called by the inputs of
\* the field that is edited
updateField(id, key, value) ==
    /\ FieldBuilderShown
    /\ Str(id) = editingFieldId
    /\ fields' = [i \in DOMAIN fields |->
                    IF fields[i].id = id THEN [fields[i] EXCEPT ![key] = value]
                    ELSE fields[i]]
    /\ editingFieldId' = Null
    /\ SaveEffects(localStorage, isAuthenticated, TRUE, FALSE)
    /\ lastEvent' = Event("page")
    /\ UNCHANGED <<data, showExcelUploader, uploaderVars, flightVars,
                   probe, isAuthenticated, activeTab, isAddingField, newField,
                   tableVars, chartConfig>>

\* FieldBuilder.removeField, behind the X of a field that is not edited
removeField(id) ==
    /\ FieldBuilderShown
    /\ Str(id) # editingFieldId
    /\ \E i \in DOMAIN fields : fields[i].id = id
    /\ fields' = SelectSeq(fields, LAMBDA field : field.id # id)
    /\ SaveEffects(localStorage, isAuthenticated, TRUE, FALSE)
    /\ lastEvent' = Event("page")
    /\ UNCHANGED <<data, showExcelUploader, uploaderVars, flightVars,
                   probe, isAuthenticated, activeTab, builderVars, tableVars,
                   chartConfig>>

(***************************************************************************)
(* DataTable.                                                              *)
(***************************************************************************)
\* Without fields the table shows a note and no button.
DataTableShown == PageShown /\ activeTab = "table" /\ Len(fields) > 0

\* "Add Row" (flag), and the X of the add form (~flag)
setIsAddingRow(flag) ==
    /\ DataTableShown
    /\ flag \/ isAddingRow
    /\ isAddingRow' = flag
    /\ newRow' = IF flag THEN newRow ELSE <<>>
    /\ lastEvent' = Event("page")
    /\ UNCHANGED <<storeVars, showExcelUploader, uploaderVars, flightVars, now,
                   probe, isAuthenticated, activeTab, localStorage, builderVars,
                   editingRowId, chartConfig>>

\* onChange of a cell of the add form: setNewRow({ ...newRow, [name]: value })
setNewRow(name, value) ==
    /\ DataTableShown
    /\ isAddingRow
    /\ newRow' = Put(newRow, name, value)
    /\ lastEvent' = Event("page")
    /\ UNCHANGED <<storeVars, showExcelUploader, uploaderVars, flightVars, now,
                   probe, isAuthenticated, activeTab, localStorage, builderVars,
                   isAddingRow, editingRowId, chartConfig>>

\* DataTable.addRow; time is what Date.now() returns
addRow(time) ==
    /\ DataTableShown
    /\ isAddingRow
    /\ Len(data) < MaxRows
    /\ time > now
    /\ time <= MaxClock
    /\ now' = time
    /\ data' = Append(data, NewRow(Str(NatToChars(time)), newRow, fields))
    /\ newRow' = <<>>
    /\ isAddingRow' = FALSE
    /\ SaveEffects(localStorage, isAuthenticated, FALSE, TRUE)
    /\ lastEvent' = Event("page")
    /\ UNCHANGED <<fields, showExcelUploader, uploaderVars, flightVars, probe,
                   isAuthenticated, activeTab, builderVars, editingRowId,
                   chartConfig>>

\* The pencil of a row that is not edited (its id), and the check mark of
\* one that is (null)
setEditingRowId(id) ==
    /\ DataTableShown
    /\ IF id = Null
       THEN \E r \in DOMAIN data : data[r][IdKey] = editingRowId
       ELSE \E r \in DOMAIN data : data[r][IdKey] = id /\ id # editingRowId
    /\ editingRowId' = id
    /\ lastEvent' = Event("page")
    /\ UNCHANGED <<storeVars, showExcelUploader, uploaderVars, flightVars, now,
                   probe, isAuthenticated, activeTab, localStorage, builderVars,
                   isAddingRow, newRow, chartConfig>>

\* DataTable.updateRow(rowId, { [name]: value }), called by the cells of a
\* row that is edited
updateRow(rowId, name, value) ==
    /\ DataTableShown
    /\ rowId = editingRowId
    /\ \E r \in DOMAIN data : data[r][IdKey] = rowId
    /\ data' = [r \in DOMAIN data |->
                  IF data[r][IdKey] = rowId THEN Put(data[r], name, value)
                  ELSE data[r]]
    /\ editingRowId' = Null
    /\ SaveEffects(localStorage, isAuthenticated, FALSE, TRUE)
    /\ lastEvent' = Event("page")
    /\ UNCHANGED <<fields, showExcelUploader, uploaderVars, flightVars,
                   probe, isAuthenticated, activeTab, builderVars, isAddingRow,
                   newRow, chartConfig>>

\* DataTable.deleteRow
deleteRow(rowId) ==
    /\ DataTableShown
    /\ \E r \in DOMAIN data : data[r][IdKey] = rowId
    /\ data' = SelectSeq(data, LAMBDA row : row[IdKey] # rowId)
    /\ SaveEffects(localStorage, isAuthenticated, FALSE, TRUE)
    /\ lastEvent' = Event("page")
    /\ UNCHANGED <<fields, showExcelUploader, uploaderVars, flightVars,
                   probe, isAuthenticated, activeTab, builderVars, tableVars,
                   chartConfig>>

(***************************************************************************)
(* ChartBuilder.                                                           *)
(***************************************************************************)
\* Without a number field the chart builder shows a note and no control.
ChartControlsShown ==
    PageShown /\ activeTab = "charts" /\ Len(numericFields(fields)) > 0

\* The buttons of the chart types, the select of the X axis (value is
\* e.target.value || undefined), and the inputs of the Y axis: radio buttons
\* in pie mode, which fire when they become checked, and checkboxes.
setChartConfig(key, value) ==
    /\ ChartControlsShown
    /\ chartConfig' = [chartConfig EXCEPT ![key] = value]
    /\ lastEvent' = Event("page")
    /\ UNCHANGED <<storeVars, showExcelUploader, uploaderVars, flightVars, now,
                   probe, isAuthenticated, activeTab, localStorage, builderVars,
                   tableVars>>

\* onChange of the input of the number field of that name
toggleYAxis(name) ==
    IF chartConfig.type = "pie"
    THEN ~includes(chartConfig.yAxis, name)
            /\ setChartConfig("yAxis", <<name>>)
    ELSE IF ~includes(chartConfig.yAxis, name)
    THEN setChartConfig("yAxis", Append(chartConfig.yAxis, name))
    ELSE setChartConfig("yAxis",
                        SelectSeq(chartConfig.yAxis, LAMBDA n : n # name))

(***************************************************************************)
(* The page as a whole: the edits, and imports of PageSheet among them.    *)
(***************************************************************************)
InitPage ==
    /\ fields = <<>>
    /\ data = <<>>
    /\ isAuthenticated = FALSE
    /\ activeTab = "fields"
    /\ localStorage \in
            {[authenticated |-> FALSE, fields |-> NoItem, data |-> NoItem],
             [authenticated |-> TRUE, fields |-> Item(SavedFields),
              data |-> Item(SavedData)]}
    /\ Mounted
    /\ now = 0
    /\ lastEvent = Event("init")
    /\ probe = NoProbe

editFields ==
    \/ \E flag \in BOOLEAN : setIsAddingField(flag)
    \/ \E name \in DraftNames : setNewField("name", name)
    \/ \E type \in TypeInputs : setNewField("type", type)
    \/ addField(now + 1)
    \/ \E i \in DOMAIN fields : setEditingFieldId(Str(fields[i].id))
    \/ setEditingFieldId(Null)
    \/ \E i \in DOMAIN fields, name \in EditNames :
            updateField(fields[i].id, "name", name) /\ Tick
    \/ \E i \in DOMAIN fields, type \in TypeInputs :
            updateField(fields[i].id, "type", type) /\ Tick
    \/ \E i \in DOMAIN fields : removeField(fields[i].id) /\ Tick

editRows ==
    \/ \E flag \in BOOLEAN : setIsAddingRow(flag)
    \/ \E i \in DOMAIN fields : \E value \in CellInputs(fields[i].type) :
            setNewRow(fields[i].name, value)
    \/ addRow(now + 1)
    \/ \E r \in DOMAIN data : setEditingRowId(data[r][IdKey])
    \/ setEditingRowId(Null)
    \/ \E r \in DOMAIN data, i \in DOMAIN fields :
            \E value \in CellInputs(fields[i].type) :
                updateRow(data[r][IdKey], fields[i].name, value)
                /\ Tick
    \/ \E r \in DOMAIN data : deleteRow(data[r][IdKey]) /\ Tick

editChart ==
    \/ \E type \in ChartTypes : setChartConfig("type", type)
    \/ setChartConfig("xAxis", Undefined)
    \/ \E i \in DOMAIN fields :
            setChartConfig("xAxis", IF fields[i].name = <<>> THEN Undefined
                                    ELSE Str(fields[i].name))
    \/ \E i \in DOMAIN fields :
            fields[i].type = "number" /\ toggleYAxis(fields[i].name)

\* An import of PageSheet: the dialog is opened, PageFile is picked, the
\* library loads, the file is read, and the preview is confirmed or the
\* dialog closed.
importSheet ==
    \/ openExcelUploader
    \/ handleFileInputChange /\ lastEvent'.file = PageFile
    \/ loadXLSXResolves
    \/ now < MaxClock
        /\ readerOnLoad(TRUE, PageSheet, now + 1,
                        [tzEast |-> FALSE, lenient |-> FALSE])
    \/ handleImport
    \/ onClose

NextPage ==
    \/ mountEffects
    \/ \E c \in Credentials : handleLogin(c[1], c[2])
    \/ handleLogout
    \/ \E tab \in {"fields", "table", "charts"} : setActiveTab(tab)
    \/ editFields
    \/ editRows
    \/ editChart
    \/ importSheet

SpecPage == InitPage /\ [][NextPage]_vars

(***************************************************************************)
(* The specifications of the functions on their own.                       *)
(***************************************************************************)
InitDetect ==
    /\ Idle
    /\ probe \in {Probe("detectFieldType", v, <<>>, env) :
                        v \in SampleValues, env \in Envs}

ApplyDetectFieldType ==
    /\ probe.op = "detectFieldType"
    /\ ~probe.done
    /\ probe' = [probe EXCEPT !.done = TRUE,
                              !.type = detectFieldType(probe.value, probe.env)]
    /\ UNCHANGED <<storeVars, showExcelUploader, uploaderVars, flightVars, now,
                   lastEvent, pageVars, localStorage>>

SpecDetect == InitDetect /\ [][ApplyDetectFieldType]_vars

InitSheet ==
    /\ Idle
    /\ probe \in {Probe("ParseSheet", Undefined, sheet, env) :
                        sheet \in DialogSheets \cup {ScoreSheet} \cup GridSheets,
                        env \in {[tzEast |-> FALSE, lenient |-> FALSE]}}

ApplyParseSheet ==
    /\ probe.op = "ParseSheet"
    /\ ~probe.done
    /\ probe' = [probe EXCEPT !.done = TRUE,
                              !.outcome = ParseSheet(probe.sheet, now, probe.env)]
    /\ UNCHANGED <<storeVars, showExcelUploader, uploaderVars, flightVars, now,
                   lastEvent, pageVars, localStorage>>

SpecSheet == InitSheet /\ [][ApplyParseSheet]_vars

\* convertValue on every value, for every type of a field.
InitConvert ==
    /\ Idle
    /\ probe \in {[Probe("convertValue", v, <<>>, env) EXCEPT !.type = type] :
                        v \in SampleValues, type \in FieldTypes, env \in Envs}

ApplyConvertValue ==
    /\ probe.op = "convertValue"
    /\ ~probe.done
    /\ probe' = [probe EXCEPT !.done = TRUE,
                              !.result = convertValue(probe.value, probe.type,
                                                      probe.env)]
    /\ UNCHANGED <<storeVars, showExcelUploader, uploaderVars, flightVars, now,
                   lastEvent, pageVars, localStorage>>

SpecConvert == InitConvert /\ [][ApplyConvertValue]_vars

\* ChartBuilder on every store of the bounded set: rows whose cells under
\* two number fields hold numbers, an infinity, a string, a boolean or
\* nothing (a type that was edited leaves any of them), and every selection
\* of the controls.
ChartFields ==
    <<[id |-> <<"1">>, name |-> LabelKey, type |-> "number", required |-> FALSE],
      [id |-> <<"2">>, name |-> <<"a">>, type |-> "number", required |-> FALSE]>>

ChartCells ==
    {Num(7, 0), Num(25, 1), Num(0, 0), Inf(1), Str(<<"x">>), Str(<<"3", "0">>),
     Str(<<>>), Bool(FALSE), Undefined}

ChartRows ==
    UNION {[1..k -> {(LabelKey :> label) @@ (<<"a">> :> cell) :
                        label \in {Num(7, 0), Undefined},
                        cell \in ChartCells}] :
              k \in 0..MaxRows}

ChartConfigs ==
    {[type |-> type, xAxis |-> xAxis, yAxis |-> yAxis] :
        type \in ChartTypes,
        xAxis \in {Undefined, Str(<<"a">>)},
        yAxis \in {<<>>, <<LabelKey>>, << <<"a">> >>, <<LabelKey, <<"a">> >>,
                   << <<"a">>, LabelKey>>}}

\* The row of the store at index: its id, and the cells that hold a value.
StoredRow(cells, index) ==
    [key \in {IdKey} \cup {k \in DOMAIN cells : cells[k] # Undefined} |->
        IF key = IdKey THEN Str(NatToChars(index)) ELSE cells[key]]

InitChart ==
    /\ fields = ChartFields
    /\ data \in {[i \in DOMAIN rows |-> StoredRow(rows[i], i)] :
                    rows \in ChartRows}
    /\ chartConfig \in ChartConfigs
    /\ isAuthenticated = TRUE
    /\ activeTab = "charts"
    /\ localStorage = [authenticated |-> TRUE,
                       fields |-> Item(stringifyFields(fields)),
                       data |-> Item(stringifyData(data))]
    /\ showExcelUploader = FALSE
    /\ isDragging = FALSE
    /\ isProcessing = FALSE
    /\ error = NoError
    /\ preview = NoPreview
    /\ loading = 0
    /\ reading = 0
    /\ stale = 0
    /\ isAddingField = FALSE
    /\ newField = NoDraft
    /\ editingFieldId = Null
    /\ isAddingRow = FALSE
    /\ newRow = <<>>
    /\ editingRowId = Null
    /\ now = 0
    /\ lastEvent = Event("page")
    /\ probe = Probe("renderChart", Undefined, <<>>,
                     [tzEast |-> FALSE, lenient |-> FALSE])

\* ChartBuilder.renderChart: the points of chartData, and for a pie the
\* slices; without a selected field there is only the hint to select one.
renderChart(points, config) ==
    [points |-> points,
     slices |-> IF config.yAxis # <<>> /\ config.type = "pie"
                THEN pieData(points, config) ELSE <<>>]

ApplyRenderChart ==
    /\ probe.op = "renderChart"
    /\ ~probe.done
    /\ probe' = [probe EXCEPT !.done = TRUE,
                              !.result = renderChart(chartData(data, chartConfig),
                                                     chartConfig)]
    /\ UNCHANGED <<storeVars, showExcelUploader, uploaderVars, flightVars, now,
                   lastEvent, pageVars, localStorage>>

SpecChart == InitChart /\ [][ApplyRenderChart]_vars

(***************************************************************************)
(* Properties.                                                             *)
(***************************************************************************)
Name == <<"N", "a", "m", "e">>

Age == <<"A", "g", "e">>

Active == <<"A", "c", "t", "i", "v", "e">>

FieldNamed(p, name, type) ==
    \E i \in DOMAIN p.fields : p.fields[i].name = name /\ p.fields[i].type = type

\* C1: for the header row ["Name","Age","Active"] and the data rows
\* [["Ann","30","Yes"],["","",""]] the preview has exactly one row, field
\* "Age" is a number with value 30 and field "Active" a boolean with value
\* true.
C1_RoundTrip ==
    (probe.op = "ParseSheet" /\ probe.done /\ probe.sheet = RoundTripSheet)
        => /\ probe.outcome.ok
           /\ Len(probe.outcome.preview.data) = 1
           /\ FieldNamed(probe.outcome.preview, Age, "number")
           /\ probe.outcome.preview.data[1][Age] = Num(30, 0)
           /\ FieldNamed(probe.outcome.preview, Active, "boolean")
           /\ probe.outcome.preview.data[1][Active] = Bool(TRUE)

\* The name ends, whatever the case of its letters, in .xlsx, .xls or .csv
\* and the size is at most 10 MiB.
HasSheetSuffix(name) ==
    \E ext \in {<<".", "x", "l", "s", "x">>, <<".", "x", "l", "s">>,
                <<".", "c", "s", "v">>} :
        /\ Len(name) >= Len(ext)
        /\ \A i \in 1..Len(ext) :
                toLowerChar(name[Len(name) - Len(ext) + i]) = ext[i]

Acceptable(file) == HasSheetSuffix(file.name) /\ file.size <= 10485760

\* The step is a file selection, by the picker or by a drop.
SelectsFile ==
    lastEvent'.op \in {"drop", "change"} /\ lastEvent'.file # NoFile

\* The step ends an import of the mounted dialog with a sheet that has a
\* header row and a row under it.
ImportSucceeds ==
    /\ lastEvent'.op = "onload"
    /\ lastEvent'.parsed
    /\ Len(lastEvent'.sheet) >= 2

\* The step is one of the failures of an import: a file of the wrong type or
\* too large, fewer than two rows, a failed read, a failed parse, a failed
\* load of the library.
ImportFails ==
    \/ SelectsFile /\ ~Acceptable(lastEvent'.file)
    \/ lastEvent'.op \in {"loadfailed", "onerror"}
    \/ lastEvent'.op = "onload" /\ ~lastEvent'.parsed
    \/ lastEvent'.op = "onload" /\ Len(lastEvent'.sheet) < 2

\* C2: every import failure ends with an error message set, leaves the live
\* fields and rows as they were and produces no preview.
C2_FailureKeepsStore ==
    [][ImportFails => /\ error' # NoError
                      /\ fields' = fields
                      /\ data' = data
                      /\ preview' = preview]_vars

\* A sheet without data rows was read while the store held an earlier import.
C2_Witness ==
    /\ lastEvent.op = "onload"
    /\ lastEvent.parsed
    /\ Len(lastEvent.sheet) = 1
    /\ error = ErrRows
    /\ ~preview.set
    /\ fields # <<>>
    /\ data # <<>>

\* C3: confirming a preview replaces the live fields by preview.fields and
\* the live rows by preview.data in one step; while the dialog is open no
\* step changes the one without setting both to those of the preview.
C3_ConfirmReplacesBoth ==
    [][/\ lastEvent'.op = "import"
            => preview.set /\ fields' = preview.fields /\ data' = preview.data
       /\ (showExcelUploader /\ (fields' # fields \/ data' # data))
            => fields' = preview.fields /\ data' = preview.data]_vars

\* The fields and the row of a sheet read at time 1 were confirmed: the
\* store holds them and nothing of an import at time 0.
C3_Witness ==
    /\ lastEvent.op = "import"
    /\ Len(fields) = 3
    /\ Len(data) = 1
    /\ fields[1].id = FieldId(0, 1)
    /\ data[1][IdKey] = Str(RowId(0, 1))

\* C4: the live store changes only by the confirm action taken while a
\* preview exists; selecting or dropping a file, the end of parsing, an
\* error, "Upload Different File", Cancel and closing the dialog leave it
\* alone, and Cancel and closing discard the preview.
C4_OnlyConfirmChangesStore ==
    [][/\ (fields' # fields \/ data' # data)
            => lastEvent'.op = "import" /\ showExcelUploader /\ preview.set
       /\ lastEvent'.op \in {"drop", "change", "loaded", "loadfailed", "onload",
                             "onerror", "different", "cancel", "close", "stale"}
            => fields' = fields /\ data' = data
       /\ lastEvent'.op \in {"cancel", "close"}
            => ~preview'.set /\ ~showExcelUploader']_vars

\* The dialog was closed over a store that holds an import, while a file read
\* was in flight.
C4_Witness ==
    /\ lastEvent.op = "close"
    /\ stale > 0
    /\ fields # <<>>
    /\ ~preview.set

\* C5: while an import is in flight no second one can be started: at most one
\* import of the dialog is in flight at any time.
C5_OneImportInFlight == loading + reading <= 1

\* C6: every started import ends with the preview set or with the error set,
\* and with the processing flag cleared; the flag is set only while an
\* import is in flight, and it does not stay set for ever.
C6_ImportFinishes ==
    /\ [](isProcessing => loading + reading > 0)
    /\ [][/\ lastEvent'.op \in {"onload", "onerror", "loadfailed"}
                => ~isProcessing'
          /\ ImportSucceeds
                => preview'.set /\ error' = error
          /\ (lastEvent'.op \in {"onload", "onerror", "loadfailed"}
                /\ ~ImportSucceeds)
                => error' # NoError /\ preview' = preview]_vars
    /\ isProcessing ~> ~isProcessing

\* A read failed: the flag is cleared and the error set.
C6_Witness ==
    /\ lastEvent.op = "onerror"
    /\ ~isProcessing
    /\ error = ErrRead
    /\ loading + reading = 0

C8_HeaderOnlyFails ==
    (probe.op = "ParseSheet" /\ probe.done /\ Len(probe.sheet) < 2)
        => /\ ~probe.outcome.ok
           /\ probe.outcome.error = ErrRows
           /\ ~probe.outcome.preview.set

\* A sheet of a header row with two names was refused.
C8_Witness ==
    /\ probe.op = "ParseSheet"
    /\ probe.done
    /\ Len(probe.sheet) = 1
    /\ Len(probe.sheet[1]) = 2
    /\ probe.outcome.error = ErrRows

IsFinite(n) == n.k = "num"

\* The rules of type inference as C9 words them, the first that matches.
FirstMatchingRule(value, env) ==
    IF value.k \in {"null", "undefined"} \/ value = Str(<<>>) THEN "text"
    ELSE IF value.k = "boolean"
            \/ (value.k = "string"
                /\ value.s \in {<<"t", "r", "u", "e">>, <<"f", "a", "l", "s", "e">>,
                                <<"y", "e", "s">>, <<"n", "o">>, <<"Y">>, <<"N">>})
    THEN "boolean"
    ELSE IF IsFinite(Number(value)) /\ IsFinite(parseFloat(value)) THEN "number"
    ELSE IF NewDate(value, env).valid /\ MatchesDatePattern(toString(value))
    THEN "date"
    ELSE IF value.k = "string" /\ includes(value.s, "@") /\ includes(value.s, ".")
    THEN "email"
    ELSE "text"

\* C9: type inference gives the result of the first rule that matches: empty
\* is text, a boolean or one of true, false, yes, no, Y, N is boolean, a
\* value that is a finite number by both conversions is number, a valid date
\* of the date pattern is date, a string with "@" and "." is email, the rest
\* is text; "2024-01-15" is a date and "john@example.com" an email.
C9_FirstMatchingRule ==
    (probe.op = "detectFieldType" /\ probe.done)
        => /\ probe.type = FirstMatchingRule(probe.value, probe.env)
           /\ probe.value = Str(Jan15) => probe.type = "date"
           /\ probe.value = Str(JohnEmail) => probe.type = "email"

\* Digits, with or without a sign before them and a fraction after them.
IsNumeral(s) ==
    \E sign \in 0..1 : \E n \in 1..Len(s) :
        /\ sign = 1 => CharAt(s, 1) = "-"
        /\ n >= 1
        /\ AllDigits(s, sign + 1, n)
        /\ \/ sign + n = Len(s)
           \/ /\ CharAt(s, sign + n + 1) = "."
              /\ Len(s) > sign + n + 1
              /\ AllDigits(s, sign + n + 2, Len(s) - sign - n - 1)

PurelyNumeric(value) ==
    \/ value.k = "num"
    \/ value.k = "string" /\ IsNumeral(value.s)

\* C10: a purely numeric string or number, "42" or "2024" for one, is a
\* number and never a date, even when it parses as a date.
C10_NumericBeforeDate ==
    (probe.op = "detectFieldType" /\ probe.done /\ PurelyNumeric(probe.value))
        => probe.type = "number"

\* "2024" is a valid date, and it was made a number.
C10_Witness ==
    /\ probe.op = "detectFieldType"
    /\ probe.done
    /\ probe.value = Str(Year2024)
    /\ NewDate(probe.value, probe.env).valid
    /\ probe.type = "number"

\* The spellings of a boolean that the instructions of the dialog name.
DocumentedSpellings ==
    {<<"Y", "e", "s">>, <<"N", "o">>, <<"T", "r", "u", "e">>,
     <<"F", "a", "l", "s", "e">>, <<"Y">>, <<"N">>}

\* C11: a first non-empty value of a column that is one of "Yes", "No",
\* "True", "False", "Y", "N", the spellings the dialog documents, makes the
\* column a boolean field.
C11_DocumentedSpellings ==
    (/\ probe.op = "detectFieldType"
     /\ probe.done
     /\ probe.value.k = "string"
     /\ probe.value.s \in DocumentedSpellings)
        => probe.type = "boolean"

\* 0 for number, false for boolean, "" for date, text and email.
EmptyOf(type) ==
    CASE type = "number" -> Num(0, 0)
      [] type = "boolean" -> Bool(FALSE)
      [] OTHER -> Str(<<>>)

\* The value is empty, or it is no number, no spelling of a boolean, no date
\* where the type asks for one.
Unparsable(value, type, env) ==
    \/ value.k \in {"null", "undefined"}
    \/ value = Str(<<>>)
    \/ type = "number" /\ Number(value).k = "nan"
    \/ /\ type = "boolean"
       /\ value.k # "boolean"
       /\ toLowerCase(toString(value)) \notin
                {<<"t", "r", "u", "e">>, <<"f", "a", "l", "s", "e">>,
                 <<"y", "e", "s">>, <<"n", "o">>, <<"y">>, <<"n">>, <<"1">>,
                 <<"0">>}
    \/ type = "date" /\ ~NewDate(value, env).valid

\* C12: the normaliser returns a value for every value and every type and
\* never throws; an empty or unparsable input gives 0 for number, false for
\* boolean and "" for date, text and email.
C12_NormalizerTotal ==
    (probe.op = "convertValue" /\ probe.done)
        => /\ probe.result.k \in {"num", "inf", "string", "boolean"}
           /\ Unparsable(probe.value, probe.type, probe.env)
                => probe.result = EmptyOf(probe.type)

\* "12px" is no number and no date: it became 0 and "".
C12_Witness ==
    /\ probe.op = "convertValue"
    /\ probe.done
    /\ probe.value = Str(<<"1", "2", "p", "x">>)
    /\ \/ probe.type = "number" /\ probe.result = Num(0, 0)
       \/ probe.type = "date" /\ probe.result = Str(<<>>)

\* The calendar date that the value names: the date it parses to where the
\* local time is UTC.
NamedDate(value, env) == NewDate(value, [env EXCEPT !.tzEast = FALSE])

\* The table of the value normaliser.
TableValue(value, type, env) ==
    IF value.k \in {"null", "undefined"} \/ value = Str(<<>>)
    THEN EmptyOf(type)
    ELSE CASE type = "number" ->
                IF Number(value).k = "nan" THEN Num(0, 0) ELSE Number(value)
           [] type = "boolean" ->
                Bool(value = Bool(TRUE)
                     \/ toLowerCase(toString(value)) \in
                            {<<"t", "r", "u", "e">>, <<"y", "e", "s">>, <<"y">>,
                             <<"1">>})
           [] type = "date" ->
                IF NewDate(value, env).valid
                THEN Str(toISODate(NamedDate(value, env)))
                ELSE Str(<<>>)
           [] OTHER -> Str(toString(value))

\* C13: the normaliser agrees with the table on every input: the numeric
\* coercion or 0; true for the literal true and for a string form that is,
\* lower-cased, one of true, yes, y, 1; the YYYY-MM-DD string of the date a
\* value names, or ""; the string form for text and email.
C13_NormalizerTable ==
    (probe.op = "convertValue" /\ probe.done)
        => probe.result = TableValue(probe.value, probe.type, probe.env)

\* C14: in every reachable state, after any sequence of manual adds,
\* imports, updates and deletes, no two fields of the store have the same id
\* and no two rows of the store have the same id.
C14_UniqueIds ==
    /\ \A i, j \in DOMAIN fields : fields[i].id = fields[j].id => i = j
    /\ \A r, s \in DOMAIN data : data[r][IdKey] = data[s][IdKey] => r = s

\* C15: in every reachable state every field of the store has a name that
\* is non-empty after trimming, whatever adds, edits, removals and imports
\* led to the state.
C15_NamesNonBlank == \A i \in DOMAIN fields : trim(fields[i].name) # <<>>

\* The runtime shape that a field type asks of a value.
HasShape(value, type) ==
    CASE type = "number" -> value.k \in {"num", "inf", "nan"}
      [] type = "boolean" -> value.k = "boolean"
      [] OTHER -> value.k = "string"

\* C16: in every reachable state, for every row and every field whose name
\* is a key of the row, the stored value has the runtime shape of the type of
\* the field: a number for number, a boolean for boolean, a string for text,
\* email and date.
C16_ValuesHaveShape ==
    \A r \in DOMAIN data, i \in DOMAIN fields :
        fields[i].name \in DOMAIN data[r]
            => HasShape(data[r][fields[i].name], fields[i].type)

\* C17: a step that ends authenticated leaves the saved fields and the
\* saved rows equal to the serialisation of the lists in memory, and a step
\* that ends not authenticated writes neither entry.
C17_SavedFollowsStore ==
    [][/\ isAuthenticated'
            => /\ localStorage'.fields = Item(stringifyFields(fields'))
               /\ localStorage'.data = Item(stringifyData(data'))
       /\ ~isAuthenticated'
            => /\ localStorage'.fields = localStorage.fields
               /\ localStorage'.data = localStorage.data]_vars

\* A field and a row were added by hand while logged in, and both are saved.
C17_Witness ==
    /\ isAuthenticated
    /\ Len(fields) = 1
    /\ fields[1].id = NatToChars(1)
    /\ Len(data) = 1
    /\ now = 2
    /\ localStorage.fields = Item(stringifyFields(fields))
    /\ localStorage.data = Item(stringifyData(data))

\* What a chart shows for the field of a row: its number, and 0 for anything
\* else.
Plotted(row, fieldName) ==
    IF fieldName \in DOMAIN row /\ row[fieldName].k \in {"num", "inf", "nan"}
    THEN row[fieldName]
    ELSE Num(0, 0)

RowLabel(index) == Str(<<"R", "o", "w", " ">> \o NatToChars(index))

\* C18: the chart projection yields exactly one point per row, in the order
\* of the row store, and with xAxis unset the labels are "Row 1", "Row 2",
\* ... numbered from 1 in that order.
C18_PointPerRow ==
    (probe.op = "renderChart" /\ probe.done)
        => /\ Len(probe.result.points) = Len(data)
           /\ \A i \in DOMAIN data :
                /\ \A j \in DOMAIN chartConfig.yAxis :
                        probe.result.points[i][chartConfig.yAxis[j]]
                            = Plotted(data[i], chartConfig.yAxis[j])
                /\ chartConfig.xAxis = Undefined
                        => probe.result.points[i][LabelKey] = RowLabel(i)

\* The sum over the rows, first to last, of what is plotted for the field.
RECURSIVE RowSum(_, _)
RowSum(rows, fieldName) ==
    IF rows = <<>> THEN Num(0, 0)
    ELSE Add(Plotted(Head(rows), fieldName), RowSum(Tail(rows), fieldName))

\* C19: a pie with two or more selected fields has one slice per selected
\* field, whose value is the sum over all rows of the value of the field;
\* with exactly one selected field it has one slice per row, labelled with
\* the label of the point and valued with the value of the field in the row.
C19_PieSlices ==
    (/\ probe.op = "renderChart"
     /\ probe.done
     /\ chartConfig.type = "pie"
     /\ chartConfig.yAxis # <<>>)
        => IF Len(chartConfig.yAxis) = 1
           THEN /\ Len(probe.result.slices) = Len(data)
                /\ \A i \in DOMAIN data :
                    /\ probe.result.slices[i].name
                            = probe.result.points[i][LabelKey]
                    /\ probe.result.slices[i].value
                            = Plotted(data[i], chartConfig.yAxis[1])
           ELSE /\ Len(probe.result.slices) = Len(chartConfig.yAxis)
                /\ \A j \in DOMAIN chartConfig.yAxis :
                    /\ probe.result.slices[j].name = Str(chartConfig.yAxis[j])
                    /\ probe.result.slices[j].value
                            = RowSum(data, chartConfig.yAxis[j])

\* Two rows with 7 and 2.5 under a, and a pie of two fields: the slice of a
\* is 9.5.
C19_Witness ==
    /\ probe.op = "renderChart"
    /\ probe.done
    /\ chartConfig.type = "pie"
    /\ Len(chartConfig.yAxis) = 2
    /\ Len(data) = 2
    /\ \E j \in DOMAIN probe.result.slices :
        /\ probe.result.slices[j].name = Str(<<"a">>)
        /\ probe.result.slices[j].value = Num(95, 1)

\* C20: in every reachable state in which the chart builder is shown, every
\* name in yAxis is the name of a field of type number of the schema, for any
\* interleaving of schema edits, imports, tab changes and chart selections;
\* and a yAxis name with no number in a row is plotted as 0.
C20_YAxisNamesNumberFields ==
    (isAuthenticated /\ activeTab = "charts")
        => \A j \in DOMAIN chartConfig.yAxis :
            /\ \E i \in DOMAIN fields :
                /\ fields[i].name = chartConfig.yAxis[j]
                /\ fields[i].type = "number"
            /\ \A r \in DOMAIN data :
                chartData(data, chartConfig)[r][chartConfig.yAxis[j]]
                    = IF typeof(Get(data[r], chartConfig.yAxis[j])) = "number"
                      THEN data[r][chartConfig.yAxis[j]]
                      ELSE Num(0, 0)

\* A text field whose row holds "x" was made a number field and is selected
\* in the chart builder, where the row is plotted as 0.
C20_Witness ==
    /\ isAuthenticated
    /\ activeTab = "charts"
    /\ Len(chartConfig.yAxis) = 1
    /\ \E r \in DOMAIN data :
        /\ Get(data[r], chartConfig.yAxis[1]) = Str(<<"x">>)
        /\ chartData(data, chartConfig)[r][chartConfig.yAxis[1]] = Num(0, 0)

\* The rows under the header row that have a cell which is there and is
\* neither null nor undefined nor "", first to last.
RECURSIVE NonBlankRows(_)
NonBlankRows(rows) ==
    IF rows = <<>> THEN <<>>
    ELSE IF \E c \in DOMAIN Head(rows) :
                /\ Head(rows)[c].k \notin {"hole", "null", "undefined"}
                /\ Head(rows)[c] # Str(<<>>)
    THEN <<Head(rows)>> \o NonBlankRows(Tail(rows))
    ELSE NonBlankRows(Tail(rows))

\* C21: in every preview, for every row and every field made from header
\* column i, the value of the row under the name of the field is the value
\* normaliser applied to the raw cell at column i with the type of the field,
\* and the row keeps its generated id; for every header row, those with
\* repeated names and with a header named "id" among them.
C21_RowsHoldNormalisedCells ==
    (probe.op = "ParseSheet" /\ probe.done /\ probe.outcome.ok)
        => \A r \in DOMAIN probe.outcome.preview.data :
            /\ probe.outcome.preview.data[r][IdKey] = Str(RowId(r - 1, now))
            /\ \A i \in DOMAIN probe.outcome.preview.fields :
                probe.outcome.preview.fields[i].type # "hole"
                    => probe.outcome.preview.data[r]
                            [probe.outcome.preview.fields[i].name]
                        = convertValue(
                            Cell(NonBlankRows(Tail(probe.sheet))[r], i),
                            probe.outcome.preview.fields[i].type, probe.env)

\* The text of a header cell; a cell that is not there has none.
HeaderText(header) ==
    IF header.k = "hole" THEN <<>> ELSE trim(toString(header))

\* The first value of column i that is there and not empty, in a one-element
\* sequence, or the empty sequence.
RECURSIVE FirstSample(_, _)
FirstSample(rows, i) ==
    IF rows = <<>> THEN <<>>
    ELSE IF /\ i \in DOMAIN Head(rows)
            /\ Head(rows)[i].k \notin {"hole", "null", "undefined"}
            /\ Head(rows)[i] # Str(<<>>)
    THEN <<Head(rows)[i]>>
    ELSE FirstSample(Tail(rows), i)

\* C22: the preview has exactly one field per header column, in header
\* order; the type of each is the type inferred for the first non-empty value
\* of the column, or text when it has none; its name is the trimmed header
\* text, or "Column N" (N the position counted from 1) when the header is
\* blank; and required is false.
C22_FieldPerHeaderColumn ==
    (probe.op = "ParseSheet" /\ probe.done /\ probe.outcome.ok)
        => /\ Len(probe.outcome.preview.fields) = Len(probe.sheet[1])
           /\ \A i \in DOMAIN probe.sheet[1] :
                /\ probe.outcome.preview.fields[i].name
                    = IF HeaderText(probe.sheet[1][i]) # <<>>
                      THEN HeaderText(probe.sheet[1][i])
                      ELSE ColumnName(i)
                /\ probe.outcome.preview.fields[i].type
                    = IF FirstSample(Tail(probe.sheet), i) # <<>>
                      THEN detectFieldType(FirstSample(Tail(probe.sheet), i)[1],
                                           probe.env)
                      ELSE "text"
                /\ probe.outcome.preview.fields[i].required = FALSE

\* C23: the rows of a preview are exactly the data rows that have at least
\* one non-empty cell, in the order of the sheet: a row whose cells are all
\* empty, null or undefined is dropped, and no other row is.
C23_BlankRowsDropped ==
    (probe.op = "ParseSheet" /\ probe.done /\ probe.outcome.ok)
        => probe.outcome.preview.data
            = TableData(NonBlankRows(Tail(probe.sheet)),
                        probe.outcome.preview.fields, now, probe.env)

\* Under the header Name, a row with an empty first cell and "30" in the
\* second was kept and the row of one empty cell before it was dropped.
C23_Witness ==
    /\ probe.op = "ParseSheet"
    /\ probe.done
    /\ probe.sheet = << <<Str(<<"N", "a", "m", "e">>)>>, <<Str(<<>>)>>,
                        <<Str(<<>>), Str(<<"3", "0">>)>> >>
    /\ probe.outcome.ok
    /\ Len(probe.outcome.preview.data) = 1
    /\ probe.outcome.preview.data[1][<<"N", "a", "m", "e">>] = Str(<<>>)

\* C24: the label of a chart point is the value of the row under the xAxis
\* field whenever that field is configured and the value is there and not
\* empty, the values 0 and false among them; it is the positional label
\* "Row n" only when xAxis is unset or the value is missing or empty.
C24_LabelFromXAxis ==
    (probe.op = "renderChart" /\ probe.done)
        => \A i \in DOMAIN data :
            probe.result.points[i][LabelKey]
                = IF /\ chartConfig.xAxis # Undefined
                     /\ chartConfig.xAxis.s \in DOMAIN data[i]
                     /\ data[i][chartConfig.xAxis.s].k \notin {"null", "undefined"}
                     /\ data[i][chartConfig.xAxis.s] # Str(<<>>)
                  THEN data[i][chartConfig.xAxis.s]
                  ELSE RowLabel(i)

\* The value of a row under a field, coerced to a number: 0 when it is
\* missing or is no number.
Coerced(row, fieldName) ==
    IF fieldName \notin DOMAIN row \/ isNaN(Number(row[fieldName]))
    THEN Num(0, 0)
    ELSE Number(row[fieldName])

\* C25: for each name of yAxis the series value of a point is the value of
\* the row coerced to a number, so that the numeric string "30" gives 30, and
\* 0 when the value is missing or not numeric.
C25_SeriesValueCoerced ==
    (probe.op = "renderChart" /\ probe.done)
        => \A i \in DOMAIN data, j \in DOMAIN chartConfig.yAxis :
            probe.result.points[i][chartConfig.yAxis[j]]
                = Coerced(data[i], chartConfig.yAxis[j])

\* The list without its entry at index.
Without(list, index) ==
    SubSeq(list, 1, index - 1) \o SubSeq(list, index + 1, Len(list))

\* C26: a row operation changes exactly one row of the store: add-row
\* appends one row at the end, update-row changes one row, delete-row removes
\* one row; all other rows and their order are unchanged, and so is the list
\* of fields.  (On the Data Table tab the rows change by these three only.)
C26_RowOperationsChangeOneRow ==
    [][(isAuthenticated /\ activeTab = "table" /\ data' # data)
        => /\ fields' = fields
           /\ \/ /\ Len(data') = Len(data) + 1
                 /\ SubSeq(data', 1, Len(data)) = data
              \/ /\ Len(data') = Len(data)
                 /\ \E r \in DOMAIN data :
                        \A s \in DOMAIN data : s # r => data'[s] = data[s]
              \/ /\ Len(data') = Len(data) - 1
                 /\ \E r \in DOMAIN data : data' = Without(data, r)]_vars

\* C27: the authenticated flag becomes true only through a login with
\* exactly the username "demo" and the password "password", or at startup
\* from the saved flag; a login attempt with any other pair leaves the flag,
\* the store in memory and the three saved entries unchanged.
C27_OnlyDemoLogsIn ==
    [][/\ (~isAuthenticated /\ isAuthenticated')
            => \/ /\ lastEvent'.op = "login"
                  /\ lastEvent'.login = <<"demo", "password">>
               \/ /\ lastEvent.op = "init"
                  /\ localStorage.authenticated
       /\ (lastEvent'.op = "login" /\ lastEvent'.login # <<"demo", "password">>)
            => UNCHANGED <<isAuthenticated, fields, data, localStorage>>]_vars

\* After a logout that left one field saved, demo/demo was refused.
C27_Witness ==
    /\ lastEvent.op = "login"
    /\ lastEvent.login = <<"demo", "demo">>
    /\ ~isAuthenticated
    /\ ~localStorage.authenticated
    /\ Len(fields) = 1
    /\ localStorage.fields = Item(stringifyFields(fields))

\* C28: loading at startup or at a login never loses the saved lists: when
\* the authenticated flag becomes true and saved lists of fields and of rows
\* are there, then after the load effect and the save effects the fields and
\* rows in memory are the saved lists and the saved entries are what they
\* were before; so it is for a logout followed by a login.
C28_LoadKeepsSaved ==
    [][(/\ ~isAuthenticated
        /\ isAuthenticated'
        /\ localStorage.fields.set
        /\ localStorage.data.set)
        => /\ fields' = localStorage.fields.json
           /\ data' = localStorage.data.json
           /\ localStorage'.fields = localStorage.fields
           /\ localStorage'.data = localStorage.data]_vars

\* The session that was saved before the page was loaded is back after a
\* logout and a login.
C28_Witness ==
    /\ lastEvent.op = "login"
    /\ isAuthenticated
    /\ fields = SavedFields
    /\ data = SavedData
    /\ localStorage.fields = Item(SavedFields)
    /\ localStorage.data = Item(SavedData)

\* C29: once a preview is shown its contents change only through an action
\* of the user (Upload Different File, confirm, cancel or close): no file
\* read that is still in flight replaces or alters it when it completes or
\* fails.
C29_PreviewChangesByUserOnly ==
    [][(preview.set /\ preview' # preview)
        => lastEvent'.op \in {"different", "import", "cancel", "close"}]_vars

\* C30: whenever the chart type is pie, yAxis holds at most one field name,
\* for every sequence of changes of the chart type and selections of fields.
C30_PieHasOneField ==
    (isAuthenticated /\ activeTab = "charts" /\ chartConfig.type = "pie")
        => Len(chartConfig.yAxis) <= 1

=============================================================================
